---- MODULE Spec2Model ----
(***************************************************************************)
(* Off-chain decision layer of the token launchpad: the buy, sell and      *)
(* graduate request handlers, the AMM arithmetic they perform on BigInt    *)
(* values, the lifecycle gate in front of the graduate submission, the two *)
(* legal-document handlers, the decoder of the raw account bytes with the  *)
(* spot-price route on top of it, and the price service.  Spec follows one *)
(* request at a time, ConcurrentSpec the requests that are under way at    *)
(* once, DecoderSpec the decoder, PriceServiceSpec the price service.      *)
(***************************************************************************)
EXTENDS Integers, Naturals, Sequences, FiniteSets, TLC

(***************************************************************************)
(* JavaScript BigInt.  The handlers compute on arbitrary-precision         *)
(* integers; the products of reserve-scale values exceed any machine word, *)
(* so a BigInt is a sign and a little-endian sequence of limbs in radix    *)
(* Base, without leading zero limbs (zero is the empty magnitude).         *)
(***************************************************************************)
Base == 10000

RECURSIVE MagNorm(_)
MagNorm(m) ==
  IF m = <<>> THEN <<>>
  ELSE IF m[Len(m)] = 0 THEN MagNorm(SubSeq(m, 1, Len(m) - 1))
  ELSE m

RECURSIVE MagOfNat(_)
MagOfNat(n) == IF n = 0 THEN <<>> ELSE <<n % Base>> \o MagOfNat(n \div Base)

Limb(m, i) == IF i <= Len(m) THEN m[i] ELSE 0

RECURSIVE MagCmpFrom(_, _, _)
MagCmpFrom(a, b, i) ==
  IF i = 0 THEN 0
  ELSE IF a[i] < b[i] THEN -1
  ELSE IF a[i] > b[i] THEN 1
  ELSE MagCmpFrom(a, b, i - 1)

\* -1, 0 or 1 as a < b, a = b, a > b (normalised magnitudes)
MagCmp(a, b) ==
  IF Len(a) < Len(b) THEN -1
  ELSE IF Len(a) > Len(b) THEN 1
  ELSE MagCmpFrom(a, b, Len(a))

RECURSIVE MagAddFrom(_, _, _, _)
MagAddFrom(a, b, i, carry) ==
  IF i > Len(a) /\ i > Len(b)
  THEN (IF carry = 0 THEN <<>> ELSE <<carry>>)
  ELSE LET s == Limb(a, i) + Limb(b, i) + carry
       IN <<s % Base>> \o MagAddFrom(a, b, i + 1, s \div Base)

MagAdd(a, b) == MagAddFrom(a, b, 1, 0)

RECURSIVE MagSubFrom(_, _, _, _)
MagSubFrom(a, b, i, borrow) ==
  IF i > Len(a) THEN <<>>
  ELSE LET d == Limb(a, i) - Limb(b, i) - borrow
       IN IF d < 0 THEN <<d + Base>> \o MagSubFrom(a, b, i + 1, 1)
          ELSE <<d>> \o MagSubFrom(a, b, i + 1, 0)

\* a - b for a >= b
MagSub(a, b) == MagNorm(MagSubFrom(a, b, 1, 0))

RECURSIVE MagMulLimbFrom(_, _, _, _)
MagMulLimbFrom(a, d, i, carry) ==
  IF i > Len(a) THEN (IF carry = 0 THEN <<>> ELSE <<carry>>)
  ELSE LET p == a[i] * d + carry
       IN <<p % Base>> \o MagMulLimbFrom(a, d, i + 1, p \div Base)

\* a * d for one limb d
MagMulLimb(a, d) == IF d = 0 THEN <<>> ELSE MagMulLimbFrom(a, d, 1, 0)

\* a * Base
MagShift(a) == IF a = <<>> THEN <<>> ELSE <<0>> \o a

RECURSIVE MagMulFrom(_, _, _)
MagMulFrom(a, b, i) ==
  IF i > Len(b) THEN <<>>
  ELSE MagAdd(MagMulLimb(a, b[i]), MagShift(MagMulFrom(a, b, i + 1)))

MagMul(a, b) == MagMulFrom(a, b, 1)

\* the largest limb q in lo..hi with b * q <= r (b * lo <= r is given)
RECURSIVE MagQuotLimb(_, _, _, _)
MagQuotLimb(r, b, lo, hi) ==
  IF lo = hi THEN lo
  ELSE LET mid == (lo + hi + 1) \div 2
       IN IF MagCmp(MagMulLimb(b, mid), r) <= 0
          THEN MagQuotLimb(r, b, mid, hi)
          ELSE MagQuotLimb(r, b, lo, mid - 1)

\* schoolbook long division from the most significant limb of a: the pair
\* <<quotient, remainder>> of the limbs a[i..Len(a)] by b, b # 0
RECURSIVE MagDivFrom(_, _, _)
MagDivFrom(a, b, i) ==
  IF i > Len(a) THEN <<(<<>>), (<<>>)>>
  ELSE LET up  == MagDivFrom(a, b, i + 1)
           r   == MagNorm(<<a[i]>> \o up[2])
           q   == MagQuotLimb(r, b, 0, Base - 1)
       IN <<MagNorm(<<q>> \o up[1]), MagSub(r, MagMulLimb(b, q))>>

MagDiv(a, b) == MagDivFrom(a, b, 1)[1]

BigZero == [neg |-> FALSE, mag |-> <<>>]

MkBig(neg, mag) == [neg |-> neg /\ mag # <<>>, mag |-> mag]

\* BigInt(n) for a machine integer n
BigOfInt(n) == IF n < 0 THEN MkBig(TRUE, MagOfNat(-n)) ELSE MkBig(FALSE, MagOfNat(n))

BigNeg(a) == MkBig(~a.neg, a.mag)

BigAdd(a, b) ==
  IF a.neg = b.neg THEN MkBig(a.neg, MagAdd(a.mag, b.mag))
  ELSE IF MagCmp(a.mag, b.mag) >= 0 THEN MkBig(a.neg, MagSub(a.mag, b.mag))
  ELSE MkBig(b.neg, MagSub(b.mag, a.mag))

BigSub(a, b) == BigAdd(a, BigNeg(b))

BigMul(a, b) == MkBig(a.neg # b.neg, MagMul(a.mag, b.mag))

\* BigInt `/`: the quotient truncated toward zero; b # 0 (a zero divisor
\* raises RangeError, which the callers model)
BigDiv(a, b) == MkBig(a.neg # b.neg, MagDiv(a.mag, b.mag))

BigCmp(a, b) ==
  IF a.neg /\ ~b.neg THEN -1
  ELSE IF ~a.neg /\ b.neg THEN 1
  ELSE IF a.neg THEN MagCmp(b.mag, a.mag)
  ELSE MagCmp(a.mag, b.mag)

BigLt(a, b) == BigCmp(a, b) < 0
BigLe(a, b) == BigCmp(a, b) <= 0
BigIsZero(a) == a.mag = <<>>

(***************************************************************************)
(* Program constants.                                                      *)
(***************************************************************************)
LAMPORTS_PER_SOL == 1000000000
TokenDecimalsScale == 1000000

SYSTEM_PROGRAM_ID == "11111111111111111111111111111111"
TOKEN_PROGRAM_ID == "TokenProgram"
ASSOCIATED_TOKEN_PROGRAM == "AssociatedTokenProgram"
LAUNCHPAD_PROGRAM_ADDRESS == "LaunchpadProgram"
\* PLATFORM_AUTHORITY_KEYPAIR.publicKey.toBase58()
HeldAuthority == "HeldAuthority"

(***************************************************************************)
(* Values of a JSON request body field (and the bigint fields of a decoded *)
(* account).  A number is its integer part and whether a fractional part   *)
(* follows it (0.5 is whole 0, frac TRUE); a string is its characters; an  *)
(* address is a string that is a well-formed base58 address.               *)
(***************************************************************************)
Absent == [t |-> "undefined"]
JNull == [t |-> "null"]
JNum(w, f) == [t |-> "number", whole |-> w, frac |-> f]
JStr(cs) == [t |-> "string", chars |-> cs]
JAddr(a) == [t |-> "address", addr |-> a]
JBig(b) == [t |-> "bigint", val |-> b]

\* JavaScript ToBoolean, as `!v` and `a && b` apply it
Truthy(v) ==
  CASE v.t = "undefined" -> FALSE
    [] v.t = "null" -> FALSE
    [] v.t = "number" -> v.whole # 0 \/ v.frac
    [] v.t = "string" -> v.chars # <<>>
    [] v.t = "address" -> TRUE
    [] v.t = "bigint" -> ~BigIsZero(v.val)

Digits == <<"0", "1", "2", "3", "4", "5", "6", "7", "8", "9">>
IsDigit(c) == \E i \in 1..10 : Digits[i] = c
DigitVal(c) == (CHOOSE i \in 1..10 : Digits[i] = c) - 1

RECURSIVE MagOfDigits(_, _)
MagOfDigits(cs, n) ==
  IF n = 0 THEN <<>>
  ELSE MagAdd(MagMulLimb(MagOfDigits(cs, n - 1), 10), MagOfNat(DigitVal(cs[n])))

Thrown == [ok |-> FALSE]
Returned(b) == [ok |-> TRUE, val |-> b]

\* BigInt(string): the empty string is 0n, an optional sign and decimal
\* digits are the integer, anything else raises SyntaxError
StringToBigInt(cs) ==
  LET signed == cs # <<>> /\ cs[1] = "-"
      ds == IF signed THEN Tail(cs) ELSE cs
  IN IF cs = <<>> THEN Returned(BigZero)
     ELSE IF ds = <<>> \/ \E i \in 1..Len(ds) : ~IsDigit(ds[i]) THEN Thrown
     ELSE Returned(MkBig(signed, MagNorm(MagOfDigits(ds, Len(ds)))))

\* toBigInt(value): a bigint as it is, a number through Math.trunc, anything
\* else through BigInt(value), which throws on undefined, null and
\* non-numeric strings (a malformed address among them)
toBigInt(v) ==
  CASE v.t = "bigint" -> Returned(v.val)
    [] v.t = "number" -> Returned(BigOfInt(v.whole))
    [] v.t = "string" -> StringToBigInt(v.chars)
    [] OTHER -> Thrown

(***************************************************************************)
(* The ledger: the launchpad state account as the RPC collaborator would   *)
(* decode it.                                                              *)
(***************************************************************************)
Statuses == {"Trading", "Transition", "Safe"}
Some(a) == [option |-> "Some", value |-> a]
\* reading .value of a None option gives undefined
None == [option |-> "None", value |-> "undefined"]

StateAddr == "LaunchpadState1"

MaxReserveUnits == 3
MaxTokenExp == 2
MaxSolAmount == 2
MaxTokenAmount == 1

RECURSIVE BigPow(_, _)
BigPow(b, e) == IF e = 0 THEN BigOfInt(1) ELSE BigMul(b, BigPow(b, e - 1))

BigLamportsPerSol == BigOfInt(LAMPORTS_PER_SOL)
ExampleSolReserves == BigMul(BigOfInt(30), BigLamportsPerSol)
ExampleTokenReserves == BigMul(BigOfInt(1073000), BigLamportsPerSol)

SolReserveValues ==
  {BigMul(BigOfInt(i), BigOfInt(LAMPORTS_PER_SOL \div 2)) : i \in 0..MaxReserveUnits}
    \cup {ExampleSolReserves}
TokenReserveValues ==
  {BigZero} \cup {BigPow(BigOfInt(10000), j) : j \in 0..MaxTokenExp}
    \cup {ExampleTokenReserves}

Account(st, mint, vault, sol, tok, auth) ==
  [exists |-> TRUE, status |-> st, mint |-> mint, tokenVault |-> vault,
   virtualSolReserves |-> sol, virtualTokenReserves |-> tok,
   k |-> BigMul(sol, tok), platformAuthority |-> auth]

NoAccount == [exists |-> FALSE]

ChainStates ==
  {NoAccount}
    \cup {Account(st, Some("Mint1"), Some("Vault1"), sol, tok, HeldAuthority) :
            st \in Statuses, sol \in SolReserveValues, tok \in TokenReserveValues}
    \cup {Account("Trading", m, v, ExampleSolReserves, ExampleTokenReserves, HeldAuthority) :
            m \in {None, Some("Mint1")}, v \in {None, Some("Vault1")}}
    \cup {Account(st, Some("Mint1"), Some("Vault1"), ExampleSolReserves,
                  ExampleTokenReserves, auth) :
            st \in Statuses, auth \in {HeldAuthority, "OtherAuthority"}}
    \cup {[Account("Trading", Some("Mint1"), Some("Vault1"), ExampleSolReserves,
                    ExampleTokenReserves, HeldAuthority) EXCEPT !.k = BigOfInt(1)]}

(***************************************************************************)
(* Requests.                                                               *)
(***************************************************************************)
SolAmountValues ==
  {Absent, JNull, JNum(0, TRUE), JStr(<<>>), JStr(<<"1">>), JStr(<<"x">>)}
    \cup {JNum(w, FALSE) : w \in -1..MaxSolAmount}
TokenAmountValues ==
  {Absent, JNull, JStr(<<>>), JStr(<<"x">>)}
    \cup {JNum(w, FALSE) : w \in -1..MaxTokenAmount}
AddressValues == {Absent, JStr(<<"x">>), JAddr(StateAddr)}
PartyValues == {Absent, JStr(<<"x">>), JAddr("User1")}

Body(a, sol, tok, buyer, seller) ==
  [launchpadStateAddress |-> a, solAmount |-> sol, tokenAmount |-> tok,
   buyer |-> buyer, seller |-> seller]

BuyBodies ==
  {Body(JAddr(StateAddr), sol, Absent, JAddr("User1"), Absent) : sol \in SolAmountValues}
    \cup {Body(a, JNum(1, FALSE), Absent, b, Absent) : a \in AddressValues, b \in PartyValues}
SellBodies ==
  {Body(JAddr(StateAddr), sol, tok, Absent, JAddr("User1")) :
     sol \in SolAmountValues, tok \in TokenAmountValues}
    \cup {Body(a, JNum(1, FALSE), Absent, Absent, s) : a \in AddressValues, s \in PartyValues}
GraduateBodies ==
  {Body(a, Absent, Absent, Absent, Absent) : a \in AddressValues \cup {JStr(<<>>)}}

Ops == {"buy", "sell", "graduate", "generate-safe", "check-and-generate-safe"}
Bodies(o) ==
  CASE o = "buy" -> BuyBodies
    [] o = "sell" -> SellBodies
    [] o = "graduate" -> GraduateBodies
    [] o = "generate-safe" -> GraduateBodies
    [] o = "check-and-generate-safe" -> GraduateBodies

(***************************************************************************)
(* Collaborators.                                                          *)
(***************************************************************************)
\* fetchMaybeLaunchpadState: the RPC call fails (network error, or a
\* malformed address the node refuses), or returns the account or its absence
FetchOutcomes(a, c) ==
  {[thrown |-> TRUE]}
    \cup (IF a.t = "address"
          THEN {[thrown |-> FALSE, account |-> IF a.addr = StateAddr THEN c ELSE NoAccount]}
          ELSE {})

U64Max ==
  StringToBigInt(<<"1", "8", "4", "4", "6", "7", "4", "4", "0", "7",
                   "3", "7", "0", "9", "5", "5", "1", "6", "1", "5">>).val

\* the instruction-data encoder writes tokenAmount as a u64: "ok" for an
\* amount in 0..2^64-1; outside it the encoder does what `outOfRange` says
\* ("ok" or "throw"), which the handlers leave to the codec
OutOfRangeOutcomes == {"ok", "throw"}
Encode(amount, outOfRange) ==
  IF BigLe(BigZero, amount) /\ BigLe(amount, U64Max) THEN "ok" ELSE outOfRange

PDA(tag, a) == <<"pda", tag, a>>
ATA(mint, owner) == <<"ata", mint, owner>>
Key(pubkey, isSigner, isWritable) ==
  [pubkey |-> pubkey, isSigner |-> isSigner, isWritable |-> isWritable]

ErrorRes(status, msg) == [status |-> status, error |-> msg]
\* what a handler has done when it answers: its response, the divisors it
\* divided by, the scaled amounts it computed, and the address derivations
\* it made
Out(r, ds) == [res |-> r, divs |-> ds, quotients |-> <<>>, derived |-> <<>>]
Deriving(as, o) == [o EXCEPT !.derived = as]
Computing(w, o) == [o EXCEPT !.quotients = <<w>>]

\* the loop over `required`: the first field that is missing or undefined
RECURSIVE MissingField(_, _)
MissingField(required, b) ==
  IF required = <<>> THEN ""
  ELSE IF b[Head(required)].t = "undefined" THEN Head(required)
  ELSE MissingField(Tail(required), b)

(***************************************************************************)
(* POST /buy                                                               *)
(***************************************************************************)
\* (solAmountLamports * virtualTokenReserves) / (virtualSolReserves + solAmountLamports)
BuyDivisor_WithoutInput(x, dx) == x
BuyDivisor(x, dx) == BigAdd(x, dx)
BuyTokenAmountWithDecimals_Unparenthesised(x, y, dx) ==
  BigAdd(BigDiv(BigMul(dx, y), x), dx)
BuyTokenAmountWithDecimals_FromK(x, y, dx) ==
  BigSub(y, BigDiv(BigMul(x, y), BuyDivisor(x, dx)))
BuyTokenAmountWithDecimals(x, y, dx) == BigDiv(BigMul(dx, y), BuyDivisor(x, dx))
\* tokenAmountWithDecimals / 1_000_000n
RemoveDecimals(w) == BigDiv(w, BigOfInt(TokenDecimalsScale))

\* tokenAmountWithDecimals <= 0n
TooLow_NegativeOnly(w) == BigLt(w, BigZero)
TooLow(w) == BigLe(w, BigZero)

buyTokenKeys_MintBeforeVault(state, d, buyer) ==
  << Key(state, FALSE, TRUE),
     Key(PDA("launchpad_authority", state), FALSE, FALSE),
     Key(PDA("sol_vault", state), FALSE, TRUE),
     Key(d.mint.value, FALSE, TRUE),
     Key(d.tokenVault.value, FALSE, TRUE),
     Key(buyer, TRUE, TRUE),
     Key(ATA(d.mint.value, buyer), FALSE, TRUE),
     Key(SYSTEM_PROGRAM_ID, FALSE, FALSE),
     Key(TOKEN_PROGRAM_ID, FALSE, FALSE),
     Key(ASSOCIATED_TOKEN_PROGRAM, FALSE, FALSE) >>

buyTokenKeys(state, d, buyer) ==
  << Key(state, FALSE, TRUE),
     Key(PDA("launchpad_authority", state), FALSE, FALSE),
     Key(PDA("sol_vault", state), FALSE, TRUE),
     Key(d.tokenVault.value, FALSE, TRUE),
     Key(d.mint.value, FALSE, TRUE),
     Key(buyer, TRUE, TRUE),
     Key(ATA(d.mint.value, buyer), FALSE, TRUE),
     Key(SYSTEM_PROGRAM_ID, FALSE, FALSE),
     Key(TOKEN_PROGRAM_ID, FALSE, FALSE),
     Key(ASSOCIATED_TOKEN_PROGRAM, FALSE, FALSE) >>

BuyResponse(b, d, w, amount) ==
  [status |-> 200,
   programId |-> LAUNCHPAD_PROGRAM_ADDRESS,
   instruction |->
     [programId |-> LAUNCHPAD_PROGRAM_ADDRESS,
      keys |-> buyTokenKeys(b.launchpadStateAddress.addr, d, b.buyer.addr),
      data |-> [discriminator |-> "buyToken", tokenAmount |-> amount]],
   debug |-> [tokenAmountWithDecimals |-> w, tokenAmountRaw |-> amount]]

\* step 4: the two program-derived addresses, then the buyer's token account
BuyPDAs(b) ==
  << PDA("launchpad_authority", b.launchpadStateAddress.addr),
     PDA("sol_vault", b.launchpadStateAddress.addr) >>

\* launchpadData.mint.__option !== 'Some' || launchpadData.tokenVault.__option !== 'Some'
NotInitialized_OrNotTrading(d) ==
  d.mint.option = "None" \/ d.tokenVault.option = "None" \/ d.status # "Trading"
NotInitialized_MintOnly(d) == d.mint.option # "Some"
NotInitialized(d) == d.mint.option # "Some" \/ d.tokenVault.option # "Some"

\* the handler from the answer of the state fetch to its response
BuyAfterFetch(b, f, enc) ==
  IF f.thrown THEN Out(ErrorRes(500, "fetch failed"), <<>>)
  ELSE IF ~f.account.exists
  THEN Out(ErrorRes(404, "Launchpad state account not found"), <<>>)
  ELSE LET d == f.account IN
  IF NotInitialized(d)
  THEN Out(ErrorRes(400, "Token mint or vault not initialized in launchpad data"), <<>>)
  ELSE LET x == toBigInt(JBig(d.virtualSolReserves)).val
           y == toBigInt(JBig(d.virtualTokenReserves)).val
           sol == toBigInt(b.solAmount)
       IN
  IF ~sol.ok THEN Out(ErrorRes(500, "Cannot convert to a BigInt"), <<>>)
  ELSE LET dx == BigMul(sol.val, BigLamportsPerSol) IN
  IF BigIsZero(x) \/ BigIsZero(y)
  THEN Out(ErrorRes(400, "Invalid launchpad state: Virtual reserves are zero."), <<>>)
  ELSE IF BigIsZero(BuyDivisor(x, dx))
  THEN Out(ErrorRes(500, "Division by zero"), <<BuyDivisor(x, dx)>>)
  ELSE LET w == BuyTokenAmountWithDecimals(x, y, dx) IN Computing(w,
  IF TooLow(w)
  THEN Out(ErrorRes(400, "SOL amount is too low to purchase any tokens."),
           <<BuyDivisor(x, dx)>>)
  ELSE LET amount == RemoveDecimals(w) IN
  IF b.buyer.t # "address"
  THEN Deriving(BuyPDAs(b), Out(ErrorRes(500, "Invalid public key input"),
                                <<BuyDivisor(x, dx)>>))
  ELSE Deriving(BuyPDAs(b) \o <<ATA(d.mint.value, b.buyer.addr)>>,
         IF Encode(amount, enc) = "throw"
         THEN Out(ErrorRes(500, "Codec: number out of range"), <<BuyDivisor(x, dx)>>)
         ELSE Out(BuyResponse(b, d, w, amount), <<BuyDivisor(x, dx)>>)))

(***************************************************************************)
(* POST /sell                                                              *)
(***************************************************************************)
\* (solAmountLamports * virtualTokenReserves) / (virtualSolReserves - solAmountLamports)
SellDivisor_AsInBuy(x, dx) == BigAdd(x, dx)
SellDivisor(x, dx) == BigSub(x, dx)
SellTokenAmountWithDecimals(x, y, dx) == BigDiv(BigMul(dx, y), SellDivisor(x, dx))

\* solAmountLamports >= virtualSolReserves
ExceedsReserves_Strictly(x, dx) == BigLt(x, dx)
ExceedsReserves(x, dx) == BigLe(x, dx)

\* the two checks on the amount fields, by truthiness: "" when they pass
SellAmountFieldsError(b) ==
  IF ~Truthy(b.tokenAmount) /\ ~Truthy(b.solAmount)
  THEN "Either tokenAmount or solAmount must be provided"
  ELSE IF Truthy(b.tokenAmount) /\ Truthy(b.solAmount)
  THEN "Provide either tokenAmount or solAmount, not both"
  ELSE ""

\* solAmount !== undefined
SellBySol(b) == b.solAmount.t # "undefined"

sellTokenKeys_WithAuthority(state, d, seller) ==
  << Key(state, FALSE, TRUE),
     Key(PDA("launchpad_authority", state), FALSE, FALSE),
     Key(PDA("sol_vault", state), FALSE, TRUE),
     Key(d.tokenVault.value, FALSE, TRUE),
     Key(d.mint.value, FALSE, TRUE),
     Key(seller, TRUE, TRUE),
     Key(ATA(d.mint.value, seller), FALSE, TRUE),
     Key(SYSTEM_PROGRAM_ID, FALSE, FALSE),
     Key(TOKEN_PROGRAM_ID, FALSE, FALSE),
     Key(ASSOCIATED_TOKEN_PROGRAM, FALSE, FALSE) >>

sellTokenKeys(state, d, seller) ==
  << Key(state, FALSE, TRUE),
     Key(PDA("sol_vault", state), FALSE, TRUE),
     Key(d.tokenVault.value, FALSE, TRUE),
     Key(d.mint.value, FALSE, TRUE),
     Key(seller, TRUE, TRUE),
     Key(ATA(d.mint.value, seller), FALSE, TRUE),
     Key(SYSTEM_PROGRAM_ID, FALSE, FALSE),
     Key(TOKEN_PROGRAM_ID, FALSE, FALSE),
     Key(ASSOCIATED_TOKEN_PROGRAM, FALSE, FALSE) >>

SellResponse(b, d, amount) ==
  [status |-> 200,
   programId |-> LAUNCHPAD_PROGRAM_ADDRESS,
   instruction |->
     [programId |-> LAUNCHPAD_PROGRAM_ADDRESS,
      keys |-> sellTokenKeys(b.launchpadStateAddress.addr, d, b.seller.addr),
      data |-> [discriminator |-> "sellToken", tokenAmount |-> amount]]]

\* steps 5 to 9: derive the accounts, encode, respond
SellAssemble(b, d, amount, enc, ds) ==
  IF b.seller.t # "address"
  THEN Deriving(<<PDA("sol_vault", b.launchpadStateAddress.addr)>>,
                Out(ErrorRes(500, "Invalid public key input"), ds))
  ELSE Deriving(<<PDA("sol_vault", b.launchpadStateAddress.addr),
                  ATA(d.mint.value, b.seller.addr)>>,
         IF Encode(amount, enc) = "throw"
         THEN Out(ErrorRes(500, "Codec: number out of range"), ds)
         ELSE Out(SellResponse(b, d, amount), ds))

\* the handler from the answer of the state fetch to its response
SellAfterFetch(b, f, enc) ==
  IF f.thrown THEN Out(ErrorRes(500, "fetch failed"), <<>>)
  ELSE IF ~f.account.exists
  THEN Out(ErrorRes(404, "Launchpad state account not found"), <<>>)
  ELSE LET d == f.account IN
  IF NotInitialized(d)
  THEN Out(ErrorRes(400, "Token mint or vault not initialized in launchpad data"), <<>>)
  ELSE IF SellBySol(b)
  THEN LET x == toBigInt(JBig(d.virtualSolReserves)).val
           y == toBigInt(JBig(d.virtualTokenReserves)).val
           sol == toBigInt(b.solAmount)
       IN
       IF ~sol.ok THEN Out(ErrorRes(500, "Cannot convert to a BigInt"), <<>>)
       ELSE LET dx == BigMul(sol.val, BigLamportsPerSol) IN
       IF BigIsZero(x) \/ BigIsZero(y)
       THEN Out(ErrorRes(400, "Invalid launchpad state: Virtual reserves are zero."), <<>>)
       ELSE IF ExceedsReserves(x, dx)
       THEN Out(ErrorRes(400, "SOL amount exceeds available reserves."), <<>>)
       ELSE IF BigIsZero(SellDivisor(x, dx))
       THEN Out(ErrorRes(500, "Division by zero"), <<SellDivisor(x, dx)>>)
       ELSE LET w == SellTokenAmountWithDecimals(x, y, dx) IN Computing(w,
       IF TooLow(w)
       THEN Out(ErrorRes(400, "SOL amount is too low to sell any tokens."),
                <<SellDivisor(x, dx)>>)
       ELSE SellAssemble(b, d, RemoveDecimals(w), enc, <<SellDivisor(x, dx)>>))
  ELSE LET tok == toBigInt(b.tokenAmount) IN
       IF ~tok.ok THEN Out(ErrorRes(500, "Cannot convert to a BigInt"), <<>>)
       ELSE SellAssemble(b, d, tok.val, enc, <<>>)

(***************************************************************************)
(* POST /graduate                                                          *)
(***************************************************************************)
Blockhashes == {"blockhash1", "blockhash2"}

graduateKeys(state) ==
  << Key(state, FALSE, TRUE), Key(HeldAuthority, TRUE, TRUE) >>

\* getLatestBlockhash('confirmed'): a blockhash and the last block height at
\* which a transaction carrying it is valid
LatestBlockhashOutcomes ==
  {[blockhash |-> b,
    lastValidBlockHeight |-> IF b = "blockhash1" THEN "height1" ELSE "height2"] :
     b \in Blockhashes}

\* new Transaction().add(instruction)
NewTransaction(state) ==
  [built |-> TRUE,
   programId |-> LAUNCHPAD_PROGRAM_ADDRESS,
   keys |-> graduateKeys(state),
   data |-> [discriminator |-> "graduateToSafe"],
   recentBlockhash |-> "", lastValidBlockHeight |-> "", feePayer |-> "",
   signer |-> ""]

\* the transaction as it is handed to sendAndConfirmTransaction: marked with
\* the answer of getLatestBlockhash, then signed
SignedTransaction_Unmarked(t, latest) == [t EXCEPT !.signer = HeldAuthority]
SignedTransaction(t, latest) ==
  [t EXCEPT !.recentBlockhash = latest.blockhash,
            !.lastValidBlockHeight = latest.lastValidBlockHeight,
            !.feePayer = HeldAuthority,
            !.signer = HeldAuthority]

\* the catch block: whatever was thrown is answered with 500, success false
\* and the message of the error
GraduateCaught_WithoutStatus(msg) == [status |-> 200, success |-> FALSE, error |-> msg]
GraduateCaught(msg) == [status |-> 500, success |-> FALSE, error |-> msg]

GraduateGate_WithoutStatus(f) ==
  IF f.thrown THEN GraduateCaught("fetch failed")
  ELSE IF ~f.account.exists THEN ErrorRes(404, "Launchpad state account not found")
  ELSE IF f.account.platformAuthority # HeldAuthority
  THEN [status |-> 403,
        error |-> "Platform authority keypair does not match the launchpad platform authority",
        expected |-> f.account.platformAuthority,
        actual |-> HeldAuthority]
  ELSE [status |-> 0]

GraduateGate_WithoutAuthority(f) ==
  IF f.thrown THEN GraduateCaught("fetch failed")
  ELSE IF ~f.account.exists THEN ErrorRes(404, "Launchpad state account not found")
  ELSE IF f.account.status # "Transition"
  THEN ErrorRes(400, <<"Launchpad must be in Transition state to graduate. Current state:",
                       f.account.status>>)
  ELSE [status |-> 0]

\* the checks on the fetched state: the response that ends the request, or
\* status 0 when the gate lets it through
GraduateGate(f) ==
  IF f.thrown THEN GraduateCaught("fetch failed")
  ELSE IF ~f.account.exists THEN ErrorRes(404, "Launchpad state account not found")
  ELSE IF f.account.status # "Transition"
  THEN ErrorRes(400, <<"Launchpad must be in Transition state to graduate. Current state:",
                       f.account.status>>)
  ELSE IF f.account.platformAuthority # HeldAuthority
  THEN [status |-> 403,
        error |-> "Platform authority keypair does not match the launchpad platform authority",
        expected |-> f.account.platformAuthority,
        actual |-> HeldAuthority]
  ELSE [status |-> 0]

GraduateResponse(b, sig) ==
  [status |-> 200, success |-> TRUE, signature |-> sig,
   launchpadState |-> b.launchpadStateAddress.addr,
   previousStatus |-> "Transition", newStatus |-> "Safe"]

\* the on-chain program's graduate_to_safe, as the ledger applies a
\* transaction that lands: it moves a launchpad in Transition to Safe when
\* the signer is its platform authority, and rejects the transaction otherwise
ProgramAccepts(c, t) ==
  /\ c.exists
  /\ c.status = "Transition"
  /\ t.signer = c.platformAuthority
AfterGraduate(c) == [c EXCEPT !.status = "Safe"]

(***************************************************************************)
(* POST /generate-safe and POST /check-and-generate-safe: the legal        *)
(* document is produced by the agent bridge, an HTTP collaborator.         *)
(***************************************************************************)
\* the bridge is unreachable (fetch throws), answers with an error status,
\* or answers with a document, whose pdfUrl and filename may be missing
Document(url, name) == [pdfUrl |-> url, filename |-> name]
BridgeOutcomes ==
  { [kind |-> "unreachable"],
    [kind |-> "error", text |-> "bridge error"],
    [kind |-> "ok", doc |-> Document("url1", "safe1.pdf")],
    [kind |-> "ok", doc |-> Document("", "")] }

\* /generate-safe, the checks on the fetched state: the response that ends
\* the request, or status 0 when the request goes on to the bridge
GenerateSafeGate(f) ==
  IF f.thrown THEN GraduateCaught("fetch failed")
  ELSE IF ~f.account.exists THEN ErrorRes(404, "Launchpad state account not found")
  ELSE IF f.account.status # "Transition"
  THEN ErrorRes(400, <<"Launchpad must be in Transition state to generate SAFE. Current state:",
                       f.account.status>>)
  ELSE [status |-> 0]

\* the response field `status` of the source is launchpadStatus here (status
\* is the HTTP status of every response)
GenerateSafeResponse(b, g) ==
  IF g.kind = "unreachable" THEN GraduateCaught("fetch failed")
  ELSE IF g.kind = "error"
  THEN [status |-> 500, error |-> "Failed to generate SAFE document via AI agent",
        details |-> g.text]
  ELSE [status |-> 200, success |-> TRUE,
        launchpadState |-> b.launchpadStateAddress.addr,
        launchpadStatus |-> "Transition",
        safeDocument |-> g.doc]

\* safeGeneratedCache.get(launchpadStateAddress): the key is the string of
\* the request; a string that is no address is never stored, address()
\* throwing before the bridge is called, so all of them are one key
CacheKey(b) ==
  IF b.launchpadStateAddress.t = "address" THEN b.launchpadStateAddress.addr
  ELSE "not an address"
Cached(cache, b) == CacheKey(b) \in DOMAIN cache
CachedResponse(cache, b) ==
  [status |-> 200, success |-> TRUE,
   message |-> "SAFE document already generated for this launchpad",
   alreadyGenerated |-> TRUE,
   safeDocument |-> cache[CacheKey(b)]]

\* launchpadData.status === Transition || launchpadData.status === Safe
GeneratesFor(st) == st = "Transition" \/ st = "Safe"

\* /check-and-generate-safe on the fetched state: the response that ends the
\* request, or status 0 when the request goes on to the bridge
CheckAndGenerateGate(f) ==
  IF f.thrown THEN GraduateCaught("fetch failed")
  ELSE IF ~f.account.exists THEN ErrorRes(404, "Launchpad state account not found")
  ELSE IF GeneratesFor(f.account.status) THEN [status |-> 0]
  ELSE [status |-> 200, success |-> TRUE,
        message |-> <<"Status is", f.account.status, "no action needed">>,
        statusChanged |-> FALSE,
        currentStatus |-> f.account.status]

CheckAndGenerateResponse(d, g) ==
  IF g.kind # "ok"
  THEN [status |-> 500, success |-> FALSE, error |-> "Failed to generate SAFE document",
        details |-> IF g.kind = "error" THEN <<"Failed to generate SAFE:", g.text>>
                    ELSE "fetch failed"]
  ELSE [status |-> 200, success |-> TRUE,
        message |-> <<"SAFE document generated for", d.status, "status">>,
        statusChanged |-> (d.status = "Transition"),
        newStatus |-> d.status,
        safeDocument |-> g.doc]

\* if (docInfo.pdfUrl && docInfo.filename) safeGeneratedCache.set(...)
CacheAfter(cache, b, g) ==
  IF g.kind = "ok" /\ g.doc.pdfUrl # "" /\ g.doc.filename # ""
  THEN [a \in DOMAIN cache \cup {CacheKey(b)} |->
          IF a = CacheKey(b) THEN g.doc ELSE cache[a]]
  ELSE cache

\* the on-chain program moves a launchpad from Trading to Transition when a
\* purchase reaches the raise target; this core has no part in it
TargetReached(c) == c.exists /\ c.status = "Trading"
AfterTargetReached(c) == [c EXCEPT !.status = "Transition"]

(***************************************************************************)
(* GET /current-price: decodeLaunchpadState reads the raw account bytes at *)
(* a running offset.  A Buffer is a sequence of bytes; offsets are 0-based *)
(* as in the source.                                                       *)
(***************************************************************************)
RangeError == [ok |-> FALSE, error |-> "RangeError"]

\* data.slice(start, end): the bytes that exist in start .. end - 1, none
\* when start is at or past the end of the buffer; slice never throws
Slice(buf, start, end) ==
  IF start >= Len(buf) THEN <<>>
  ELSE SubSeq(buf, start + 1, IF end < Len(buf) THEN end ELSE Len(buf))

\* new BN(bytes, 'le'): the little-endian value of the bytes, 0 for no bytes
RECURSIVE BNFromLE(_)
BNFromLE(bytes) ==
  IF bytes = <<>> THEN BigZero
  ELSE BigAdd(BigOfInt(Head(bytes)), BigMul(BigOfInt(256), BNFromLE(Tail(bytes))))

\* data.readUInt32LE(offset) throws a RangeError unless four bytes exist at offset
readUInt32LE(buf, offset) ==
  IF offset + 4 > Len(buf) THEN RangeError
  ELSE Returned(BNFromLE(Slice(buf, offset, offset + 4)))

\* a BigInt below Base^2 as a number
SmallInt(b) == Limb(b.mag, 1) + Base * Limb(b.mag, 2)

\* offset += 4 + len.  The sum is exact while len is at most the buffer's
\* length; a larger len puts the offset past the end, where every later read
\* behaves alike (readUInt32LE throws, slice is empty), so it is kept as the
\* first such offset
SkipString(buf, offset, len) ==
  IF BigLe(len, BigOfInt(Len(buf))) THEN offset + 4 + SmallInt(len)
  ELSE Len(buf) + offset

\* offset += 16 (slope); offset += 8 (solRaised)
TokensSoldOffset_WithoutSolRaised(slopeAt) == slopeAt + 16
TokensSoldOffset(slopeAt) == slopeAt + 16 + 8

decodeLaunchpadState(buf) ==
  LET nameAt == 8 + 32
      nameLen == readUInt32LE(buf, nameAt)
  IN IF ~nameLen.ok THEN RangeError ELSE
  LET symbolAt == SkipString(buf, nameAt, nameLen.val)
      symbolLen == readUInt32LE(buf, symbolAt)
  IN IF ~symbolLen.ok THEN RangeError ELSE
  LET uriAt == SkipString(buf, symbolAt, symbolLen.val)
      uriLen == readUInt32LE(buf, uriAt)
  IN IF ~uriLen.ok THEN RangeError ELSE
  LET priceAt == SkipString(buf, uriAt, uriLen.val) + 8 + 8
      slopeAt == priceAt + 8
      soldAt == TokensSoldOffset(slopeAt)
  IN [ok |-> TRUE,
      tokensSoldRaw |-> BNFromLE(Slice(buf, soldAt, soldAt + 8)),
      initialPriceLamports |-> BNFromLE(Slice(buf, priceAt, priceAt + 8)),
      slope |-> BNFromLE(Slice(buf, slopeAt, slopeAt + 16))]

\* The route: the account is fetched, decoded, and the price of one full
\* token is P_0 + m * s lamports per atomic unit times 10^TOKEN_DECIMALS, in
\* BN arithmetic (exact, on non-negative integers)
TOKEN_DECIMALS == 6
TOKEN_MULTIPLIER == BigPow(BigOfInt(10), TOKEN_DECIMALS)

priceIncrease_Sum(slope, tokensSoldRaw) == BigAdd(slope, tokensSoldRaw)
priceIncrease(slope, tokensSoldRaw) == BigMul(slope, tokensSoldRaw)
currentPriceAtomicLamports(d) ==
  BigAdd(d.initialPriceLamports, priceIncrease(d.slope, d.tokensSoldRaw))
currentPriceFullTokenLamports(d) ==
  BigMul(currentPriceAtomicLamports(d), TOKEN_MULTIPLIER)

AccountInfoOutcomes == {"data", "null", "threw"}
\* the response; currentPrice and currentPriceSol, the same amount as a
\* floating-point number of SOL, are left out
CurrentPriceResponse(o, buf) ==
  IF o = "null" THEN ErrorRes(404, "Launchpad account not found on-chain.")
  ELSE IF o = "threw" \/ ~decodeLaunchpadState(buf).ok
  THEN ErrorRes(500, "Failed to fetch live price from the blockchain.")
  ELSE LET d == decodeLaunchpadState(buf)
       IN [status |-> 200,
           currentPriceLamports |-> currentPriceFullTokenLamports(d),
           debug |-> [atomic |->
             [initialPriceLamports |-> d.initialPriceLamports,
              tokensSoldRaw |-> d.tokensSoldRaw,
              slope |-> d.slope,
              priceIncreaseLamports |-> priceIncrease(d.slope, d.tokensSoldRaw),
              currentPriceAtomicLamports |-> currentPriceAtomicLamports(d)]]]

(***************************************************************************)
(* The account as the on-chain program lays it out, for the buffers the    *)
(* decoder is given: every field little-endian, every string behind its    *)
(* 4-byte length.                                                          *)
(***************************************************************************)
MaxStrLen == 1

\* An unsigned integer field is given by its digits in radix 65536, least
\* significant first: its value, and its n bytes (two per digit, low byte
\* first, zero beyond the digits)
RECURSIVE WordsValue(_)
WordsValue(ws) ==
  IF ws = <<>> THEN BigZero
  ELSE BigAdd(BigOfInt(Head(ws)), BigMul(BigOfInt(65536), WordsValue(Tail(ws))))
BytesLE(ws, n) ==
  [i \in 1..n |->
     LET w == IF (i + 1) \div 2 <= Len(ws) THEN ws[(i + 1) \div 2] ELSE 0
     IN IF i % 2 = 1 THEN w % 256 ELSE w \div 256]

Filler(n, b) == [i \in 1..n |-> b]
BorshString(len, b) == BytesLE(<<len>>, 4) \o Filler(len, b)

Fields(n, s, u, price, slope, sold) ==
  [nameLen |-> n, symbolLen |-> s, uriLen |-> u,
   initialPrice |-> price, slope |-> slope, tokensSold |-> sold]
NoFields == Fields(0, 0, 0, <<>>, <<>>, <<>>)

\* the fields read, the fields skipped (each with bytes of its own, so that
\* a read at a wrong offset shows), and the fields after tokensSold
AccountBytes(f) ==
  Filler(8, 1) \o Filler(32, 2)
    \o BorshString(f.nameLen, 3) \o BorshString(f.symbolLen, 4) \o BorshString(f.uriLen, 5)
    \o Filler(8, 6) \o Filler(8, 7)
    \o BytesLE(f.initialPrice, 8) \o BytesLE(f.slope, 16)
    \o Filler(8, 9) \o BytesLE(f.tokensSold, 8)
    \o Filler(8, 10)

\* the least length at which every read of the decoder finds its bytes
RequiredLength(f) ==
  8 + 32 + (4 + f.nameLen) + (4 + f.symbolLen) + (4 + f.uriLen) + 8 + 8 + 8 + 16 + 8 + 8

TokensSoldValues == {<<>>, <<1>>, <<4464, 1>>, Filler(4, 65535)}
FieldsValues ==
  {Fields(n, s, u, price, slope, sold) :
     n \in 0..MaxStrLen, s \in 0..MaxStrLen, u \in 0..MaxStrLen,
     price \in {<<>>, <<16960, 15>>, Filler(4, 65535)},
     slope \in {<<>>, <<258>>, Filler(8, 65535)},
     sold \in TokensSoldValues}

\* the lengths a buffer is cut to: inside and between the length prefixes,
\* and counted back from the end of the account
ShortLengths == {0, 39, 42, 44, 46, 48, 50, 52, 55}
DroppedBytes == {0, 8, 9, 12, 16, 20, 24, 32, 40, 44, 48, 56, 64}
Buffers(f) ==
  LET all == AccountBytes(f)
  IN {SubSeq(all, 1, n) : n \in ShortLengths}
       \cup {SubSeq(all, 1, Len(all) - d) : d \in DroppedBytes}

NotDecoded == [ok |-> FALSE, error |-> "not decoded"]

\* graduations counts the graduate transactions that have landed on the
\* ledger, and quotients holds the scaled amount of the request under way
\* once it is computed; they are read by the properties only
VARIABLES op, body, chain, pc, launchpadData, tx, res, calls, divs, quotients,
          derived, safeGeneratedCache, graduations, fields, data, decoded, price,
          requests, priceData, updateInterval, updates, updateCalls, now,
          lastOutcome
decoderVars == <<fields, data, decoded, price>>
concurrentVars == <<requests>>
serviceVars == <<priceData, updateInterval, updates, updateCalls, now, lastOutcome>>
vars == <<op, body, chain, pc, launchpadData, tx, res, calls, divs, quotients,
          derived, safeGeneratedCache, graduations,
          decoderVars, concurrentVars, serviceVars>>

NoRes == [status |-> 0]
NoData == [exists |-> FALSE]
NoTx == [built |-> FALSE]

\* the requests that are under way at once, each with the locals of its
\* handler; none is, where one request is followed at a time
MaxInFlight == 2
Slots == 1..MaxInFlight
NoRequest ==
  [op |-> "none", pc |-> "idle", launchpadData |-> NoData, tx |-> NoTx,
   res |-> NoRes, calls |-> <<>>]
NoRequests == requests = [s \in Slots |-> NoRequest]

\* the price service, before it is constructed
NoService ==
  /\ updateInterval = "null"
  /\ priceData = [prices |-> [BTC |-> 0, ETH |-> 0, SOL |-> 0],
                  lastUpdated |-> 0, isUpdating |-> FALSE]
  /\ updates = <<>>
  /\ updateCalls = 0
  /\ now = 0
  /\ lastOutcome = "none"

Init ==
  /\ chain \in ChainStates
  /\ op \in Ops
  /\ body \in Bodies(op)
  /\ pc = "received"
  /\ launchpadData = NoData
  /\ tx = NoTx
  /\ res = NoRes
  /\ calls = <<>>
  /\ divs = <<>>
  /\ quotients = <<>>
  /\ derived = <<>>
  /\ safeGeneratedCache = <<>>
  /\ graduations = 0
  /\ fields = NoFields
  /\ data = <<>>
  /\ decoded = NotDecoded
  /\ price = NoRes
  /\ NoRequests
  /\ NoService

Respond(r) == res' = r /\ pc' = "done"

BuyStart ==
  /\ op = "buy" /\ pc = "received"
  /\ LET missing == MissingField(<<"launchpadStateAddress", "solAmount", "buyer">>, body)
     IN IF missing # ""
        THEN /\ Respond(ErrorRes(400, <<"Missing field", missing>>))
             /\ UNCHANGED calls
        ELSE /\ calls' = Append(calls, "fetchMaybeLaunchpadState")
             /\ pc' = "fetching"
             /\ UNCHANGED res
  /\ UNCHANGED <<op, body, chain, launchpadData, tx, divs, quotients>>
  /\ UNCHANGED <<derived, safeGeneratedCache, graduations, decoderVars, concurrentVars, serviceVars>>

BuyFetched ==
  /\ op = "buy" /\ pc = "fetching"
  /\ \E f \in FetchOutcomes(body.launchpadStateAddress, chain) :
       /\ launchpadData' = (IF f.thrown THEN NoData ELSE f.account)
       /\ \E enc \in OutOfRangeOutcomes :
            LET out == BuyAfterFetch(body, f, enc)
            IN /\ Respond(out.res)
               /\ divs' = out.divs
               /\ quotients' = out.quotients
               /\ derived' = out.derived
  /\ UNCHANGED <<op, body, chain, tx, calls>>
  /\ UNCHANGED <<safeGeneratedCache, graduations, decoderVars, concurrentVars, serviceVars>>

SellStart ==
  /\ op = "sell" /\ pc = "received"
  /\ LET missing == MissingField(<<"launchpadStateAddress", "seller">>, body)
     IN IF missing # ""
        THEN /\ Respond(ErrorRes(400, <<"Missing field", missing>>))
             /\ UNCHANGED calls
        ELSE IF SellAmountFieldsError(body) # ""
        THEN /\ Respond(ErrorRes(400, SellAmountFieldsError(body)))
             /\ UNCHANGED calls
        ELSE /\ calls' = Append(calls, "fetchMaybeLaunchpadState")
             /\ pc' = "fetching"
             /\ UNCHANGED res
  /\ UNCHANGED <<op, body, chain, launchpadData, tx, divs, quotients>>
  /\ UNCHANGED <<derived, safeGeneratedCache, graduations, decoderVars, concurrentVars, serviceVars>>

SellFetched ==
  /\ op = "sell" /\ pc = "fetching"
  /\ \E f \in FetchOutcomes(body.launchpadStateAddress, chain) :
       /\ launchpadData' = (IF f.thrown THEN NoData ELSE f.account)
       /\ \E enc \in OutOfRangeOutcomes :
            LET out == SellAfterFetch(body, f, enc)
            IN /\ Respond(out.res)
               /\ divs' = out.divs
               /\ quotients' = out.quotients
               /\ derived' = out.derived
  /\ UNCHANGED <<op, body, chain, tx, calls>>
  /\ UNCHANGED <<safeGeneratedCache, graduations, decoderVars, concurrentVars, serviceVars>>

GraduateStart ==
  /\ op = "graduate" /\ pc = "received"
  /\ IF ~Truthy(body.launchpadStateAddress)
     THEN /\ Respond(ErrorRes(400, "Missing field: launchpadStateAddress"))
          /\ UNCHANGED calls
     ELSE IF body.launchpadStateAddress.t # "address"
     THEN \* address(launchpadStateAddress) throws before the fetch is made
          /\ Respond(GraduateCaught("Invalid address"))
          /\ UNCHANGED calls
     ELSE /\ calls' = Append(calls, "fetchMaybeLaunchpadState")
          /\ pc' = "fetching"
          /\ UNCHANGED res
  /\ UNCHANGED <<op, body, chain, launchpadData, tx, divs, quotients>>
  /\ UNCHANGED <<derived, safeGeneratedCache, graduations, decoderVars, concurrentVars, serviceVars>>

GraduateFetched ==
  /\ op = "graduate" /\ pc = "fetching"
  /\ \E f \in FetchOutcomes(body.launchpadStateAddress, chain) :
       /\ launchpadData' = (IF f.thrown THEN NoData ELSE f.account)
       /\ IF GraduateGate(f).status # 0
          THEN /\ Respond(GraduateGate(f))
               /\ UNCHANGED <<tx, calls>>
          ELSE /\ tx' = NewTransaction(body.launchpadStateAddress.addr)
               /\ calls' = Append(calls, "getLatestBlockhash")
               /\ pc' = "blockhash"
               /\ UNCHANGED res
  /\ UNCHANGED <<op, body, chain, divs, quotients>>
  /\ UNCHANGED <<derived, safeGeneratedCache, graduations, decoderVars, concurrentVars, serviceVars>>

GraduateBlockhash ==
  /\ op = "graduate" /\ pc = "blockhash"
  /\ \/ /\ Respond(GraduateCaught("failed to get recent blockhash"))
        /\ UNCHANGED <<tx, calls>>
     \/ \E latest \in LatestBlockhashOutcomes :
          /\ tx' = SignedTransaction(tx, latest)
          /\ calls' = calls \o <<"sign", "sendAndConfirmTransaction">>
          /\ pc' = "confirming"
          /\ UNCHANGED res
  /\ UNCHANGED <<op, body, chain, launchpadData, divs, quotients>>
  /\ UNCHANGED <<derived, safeGeneratedCache, graduations, decoderVars, concurrentVars, serviceVars>>

\* sendAndConfirmTransaction returns the signature of a confirmed
\* transaction, or throws: the transaction never landed, the program
\* rejected it, or it landed but its confirmation was not seen in time
GraduateConfirmed ==
  /\ op = "graduate" /\ pc = "confirming"
  /\ \/ /\ ProgramAccepts(chain, tx)
        /\ chain' = AfterGraduate(chain)
        /\ graduations' = graduations + 1
        /\ calls' = Append(calls, "sendAndConfirmTransaction returned")
        /\ Respond(GraduateResponse(body, "signature"))
     \/ /\ ProgramAccepts(chain, tx)
        /\ chain' = AfterGraduate(chain)
        /\ graduations' = graduations + 1
        /\ calls' = Append(calls, "sendAndConfirmTransaction threw")
        /\ Respond(GraduateCaught("Transaction was not confirmed"))
     \/ /\ UNCHANGED <<chain, graduations>>
        /\ calls' = Append(calls, "sendAndConfirmTransaction threw")
        /\ Respond(GraduateCaught("failed to send transaction"))
  /\ UNCHANGED <<op, body, launchpadData, tx, divs, quotients>>
  /\ UNCHANGED <<derived, safeGeneratedCache, decoderVars, concurrentVars, serviceVars>>

GenerateSafeStart ==
  /\ op = "generate-safe" /\ pc = "received"
  /\ IF ~Truthy(body.launchpadStateAddress)
     THEN /\ Respond(ErrorRes(400, "Missing field: launchpadStateAddress"))
          /\ UNCHANGED calls
     ELSE IF body.launchpadStateAddress.t # "address"
     THEN \* address(launchpadStateAddress) throws before the fetch is made
          /\ Respond(GraduateCaught("Invalid address"))
          /\ UNCHANGED calls
     ELSE /\ calls' = Append(calls, "fetchMaybeLaunchpadState")
          /\ pc' = "fetching"
          /\ UNCHANGED res
  /\ UNCHANGED <<op, body, chain, launchpadData, tx, divs, quotients>>
  /\ UNCHANGED <<derived, safeGeneratedCache, graduations, decoderVars, concurrentVars, serviceVars>>

GenerateSafeFetched ==
  /\ op = "generate-safe" /\ pc = "fetching"
  /\ \E f \in FetchOutcomes(body.launchpadStateAddress, chain) :
       /\ launchpadData' = (IF f.thrown THEN NoData ELSE f.account)
       /\ IF GenerateSafeGate(f).status # 0
          THEN /\ Respond(GenerateSafeGate(f))
               /\ UNCHANGED calls
          ELSE /\ calls' = Append(calls, "bridge /generate-safe")
               /\ pc' = "generating"
               /\ UNCHANGED res
  /\ UNCHANGED <<op, body, chain, tx, divs, quotients>>
  /\ UNCHANGED <<derived, safeGeneratedCache, graduations, decoderVars, concurrentVars, serviceVars>>

GenerateSafeBridged ==
  /\ op = "generate-safe" /\ pc = "generating"
  /\ \E g \in BridgeOutcomes : Respond(GenerateSafeResponse(body, g))
  /\ UNCHANGED <<op, body, chain, launchpadData, tx, calls, divs, quotients>>
  /\ UNCHANGED <<derived, safeGeneratedCache, graduations, decoderVars, concurrentVars, serviceVars>>

CheckAndGenerateStart ==
  /\ op = "check-and-generate-safe" /\ pc = "received"
  /\ IF ~Truthy(body.launchpadStateAddress)
     THEN /\ Respond(ErrorRes(400, "Missing field: launchpadStateAddress"))
          /\ UNCHANGED calls
     ELSE IF Cached(safeGeneratedCache, body)
     THEN /\ Respond(CachedResponse(safeGeneratedCache, body))
          /\ UNCHANGED calls
     ELSE IF body.launchpadStateAddress.t # "address"
     THEN /\ Respond(GraduateCaught("Invalid address"))
          /\ UNCHANGED calls
     ELSE /\ calls' = Append(calls, "fetchMaybeLaunchpadState")
          /\ pc' = "fetching"
          /\ UNCHANGED res
  /\ UNCHANGED <<op, body, chain, launchpadData, tx, divs, quotients>>
  /\ UNCHANGED <<derived, safeGeneratedCache, graduations, decoderVars, concurrentVars, serviceVars>>

CheckAndGenerateFetched ==
  /\ op = "check-and-generate-safe" /\ pc = "fetching"
  /\ \E f \in FetchOutcomes(body.launchpadStateAddress, chain) :
       /\ launchpadData' = (IF f.thrown THEN NoData ELSE f.account)
       /\ IF CheckAndGenerateGate(f).status # 0
          THEN /\ Respond(CheckAndGenerateGate(f))
               /\ UNCHANGED calls
          ELSE /\ calls' = Append(calls, "bridge /generate-safe")
               /\ pc' = "generating"
               /\ UNCHANGED res
  /\ UNCHANGED <<op, body, chain, tx, divs, quotients>>
  /\ UNCHANGED <<derived, safeGeneratedCache, graduations, decoderVars, concurrentVars, serviceVars>>

CheckAndGenerateBridged ==
  /\ op = "check-and-generate-safe" /\ pc = "generating"
  /\ \E g \in BridgeOutcomes :
       /\ safeGeneratedCache' = CacheAfter(safeGeneratedCache, body, g)
       /\ Respond(CheckAndGenerateResponse(launchpadData, g))
  /\ UNCHANGED <<op, body, chain, launchpadData, tx, calls, divs, quotients>>
  /\ UNCHANGED <<derived, graduations, decoderVars, concurrentVars, serviceVars>>

\* the ledger moves on between any two steps of a request
LedgerReachesTarget ==
  /\ TargetReached(chain)
  /\ chain' = AfterTargetReached(chain)
  /\ UNCHANGED <<op, body, pc, launchpadData, tx, res, calls, divs, quotients>>
  /\ UNCHANGED <<derived, safeGeneratedCache, graduations, decoderVars, concurrentVars, serviceVars>>

\* the next request arrives once the last one has been answered
NewRequest ==
  /\ pc = "done"
  /\ \E o \in Ops : op' = o /\ body' \in Bodies(o)
  /\ pc' = "received"
  /\ launchpadData' = NoData
  /\ tx' = NoTx
  /\ res' = NoRes
  /\ calls' = <<>>
  /\ divs' = <<>>
  /\ quotients' = <<>>
  /\ derived' = <<>>
  /\ UNCHANGED <<chain, safeGeneratedCache, graduations, decoderVars, concurrentVars, serviceVars>>

Next ==
  \/ BuyStart \/ BuyFetched
  \/ SellStart \/ SellFetched
  \/ GraduateStart \/ GraduateFetched \/ GraduateBlockhash \/ GraduateConfirmed
  \/ GenerateSafeStart \/ GenerateSafeFetched \/ GenerateSafeBridged
  \/ CheckAndGenerateStart \/ CheckAndGenerateFetched \/ CheckAndGenerateBridged
  \/ LedgerReachesTarget
  \/ NewRequest
Spec == Init /\ [][Next]_vars

(***************************************************************************)
(* The decoder on its own: a buffer is given, and either                   *)
(* decodeLaunchpadState is applied to it or the price route answers from   *)
(* it.  No buy, sell, graduate or document request is under way.           *)
(***************************************************************************)
requestVars == <<op, body, chain, pc, launchpadData, tx, res, calls, divs, quotients,
                 derived, safeGeneratedCache, graduations>>

DecoderInit ==
  /\ op = "none"
  /\ body = Body(Absent, Absent, Absent, Absent, Absent)
  /\ chain = NoAccount
  /\ pc = "idle"
  /\ launchpadData = NoData
  /\ tx = NoTx
  /\ res = NoRes
  /\ calls = <<>>
  /\ divs = <<>>
  /\ quotients = <<>>
  /\ derived = <<>>
  /\ safeGeneratedCache = <<>>
  /\ graduations = 0
  /\ fields \in FieldsValues
  /\ data \in Buffers(fields)
  /\ decoded = NotDecoded
  /\ price = NoRes
  /\ NoRequests
  /\ NoService

Decode ==
  /\ decoded = NotDecoded
  /\ price = NoRes
  /\ decoded' = decodeLaunchpadState(data)
  /\ UNCHANGED <<fields, data, price, requestVars, concurrentVars, serviceVars>>

\* GET /current-price/:launchpadPubkey, from the answer of getAccountInfo on;
\* the route decodes the buffer itself
CurrentPrice ==
  /\ price = NoRes
  /\ decoded = NotDecoded
  /\ \E o \in AccountInfoOutcomes : price' = CurrentPriceResponse(o, data)
  /\ UNCHANGED <<fields, data, decoded, requestVars, concurrentVars, serviceVars>>

DecoderNext == Decode \/ CurrentPrice
DecoderSpec == DecoderInit /\ [][DecoderNext]_vars

(***************************************************************************)
(* Requests under way at once.  A handler runs from one await to the next  *)
(* without interruption; between two awaits of one request the steps of    *)
(* the others, and of the ledger, take place.  The requests name the same  *)
(* launchpad; they share the ledger and the module-level cache.            *)
(***************************************************************************)
SharedBody == Body(JAddr(StateAddr), Absent, Absent, Absent, Absent)
ConcurrentOps == {"graduate", "check-and-generate-safe"}
SharedLedgerStates ==
  {NoAccount}
    \cup {Account(st, Some("Mint1"), Some("Vault1"), ExampleSolReserves,
                  ExampleTokenReserves, auth) :
            st \in Statuses, auth \in {HeldAuthority, "OtherAuthority"}}

ConcurrentInit ==
  /\ op = "none"
  /\ body = SharedBody
  /\ chain \in SharedLedgerStates
  /\ pc = "idle"
  /\ launchpadData = NoData
  /\ tx = NoTx
  /\ res = NoRes
  /\ calls = <<>>
  /\ divs = <<>>
  /\ quotients = <<>>
  /\ derived = <<>>
  /\ safeGeneratedCache = <<>>
  /\ graduations = 0
  /\ fields = NoFields
  /\ data = <<>>
  /\ decoded = NotDecoded
  /\ price = NoRes
  /\ NoRequests
  /\ NoService

\* what the requests under way at once leave alone
sequentialVars ==
  <<op, body, pc, launchpadData, tx, res, calls, divs, quotients, derived,
    decoderVars, serviceVars>>
At(s, o, p) == requests[s].op = o /\ requests[s].pc = p
Becomes(s, r) == requests' = [requests EXCEPT ![s] = r]
Responds(s, r) == Becomes(s, [requests[s] EXCEPT !.res = r, !.pc = "done"])
Calling(s, c, p) == [requests[s] EXCEPT !.calls = Append(@, c), !.pc = p]

RequestArrives(s) ==
  /\ requests[s].pc = "idle"
  /\ \E o \in ConcurrentOps :
       Becomes(s, [requests[s] EXCEPT !.op = o, !.pc = "received"])
  /\ UNCHANGED <<chain, safeGeneratedCache, graduations, sequentialVars>>

GraduateStartAt(s) ==
  /\ At(s, "graduate", "received")
  /\ Becomes(s, Calling(s, "fetchMaybeLaunchpadState", "fetching"))
  /\ UNCHANGED <<chain, safeGeneratedCache, graduations, sequentialVars>>

GraduateFetchedAt(s) ==
  /\ At(s, "graduate", "fetching")
  /\ \E f \in FetchOutcomes(body.launchpadStateAddress, chain) :
       LET d == IF f.thrown THEN NoData ELSE f.account
       IN IF GraduateGate(f).status # 0
          THEN Becomes(s, [requests[s] EXCEPT !.launchpadData = d,
                                              !.res = GraduateGate(f), !.pc = "done"])
          ELSE Becomes(s, [Calling(s, "getLatestBlockhash", "blockhash")
                             EXCEPT !.launchpadData = d,
                                    !.tx = NewTransaction(body.launchpadStateAddress.addr)])
  /\ UNCHANGED <<chain, safeGeneratedCache, graduations, sequentialVars>>

GraduateBlockhashAt(s) ==
  /\ At(s, "graduate", "blockhash")
  /\ \/ Responds(s, GraduateCaught("failed to get recent blockhash"))
     \/ \E latest \in LatestBlockhashOutcomes :
          Becomes(s, [requests[s] EXCEPT
                        !.tx = SignedTransaction(@, latest),
                        !.calls = @ \o <<"sign", "sendAndConfirmTransaction">>,
                        !.pc = "confirming"])
  /\ UNCHANGED <<chain, safeGeneratedCache, graduations, sequentialVars>>

GraduateConfirmedAt(s) ==
  /\ At(s, "graduate", "confirming")
  /\ \/ /\ ProgramAccepts(chain, requests[s].tx)
        /\ chain' = AfterGraduate(chain)
        /\ graduations' = graduations + 1
        /\ Becomes(s, [Calling(s, "sendAndConfirmTransaction returned", "done")
                         EXCEPT !.res = GraduateResponse(body, "signature")])
     \/ /\ ProgramAccepts(chain, requests[s].tx)
        /\ chain' = AfterGraduate(chain)
        /\ graduations' = graduations + 1
        /\ Becomes(s, [Calling(s, "sendAndConfirmTransaction threw", "done")
                         EXCEPT !.res = GraduateCaught("Transaction was not confirmed")])
     \/ /\ UNCHANGED <<chain, graduations>>
        /\ Becomes(s, [Calling(s, "sendAndConfirmTransaction threw", "done")
                         EXCEPT !.res = GraduateCaught("failed to send transaction")])
  /\ UNCHANGED <<safeGeneratedCache, sequentialVars>>

CheckAndGenerateStartAt(s) ==
  /\ At(s, "check-and-generate-safe", "received")
  /\ IF Cached(safeGeneratedCache, body)
     THEN Responds(s, CachedResponse(safeGeneratedCache, body))
     ELSE Becomes(s, Calling(s, "fetchMaybeLaunchpadState", "fetching"))
  /\ UNCHANGED <<chain, safeGeneratedCache, graduations, sequentialVars>>

CheckAndGenerateFetchedAt(s) ==
  /\ At(s, "check-and-generate-safe", "fetching")
  /\ \E f \in FetchOutcomes(body.launchpadStateAddress, chain) :
       LET d == IF f.thrown THEN NoData ELSE f.account
       IN IF CheckAndGenerateGate(f).status # 0
          THEN Becomes(s, [requests[s] EXCEPT !.launchpadData = d,
                                              !.res = CheckAndGenerateGate(f),
                                              !.pc = "done"])
          ELSE Becomes(s, [Calling(s, "bridge /generate-safe", "generating")
                             EXCEPT !.launchpadData = d])
  /\ UNCHANGED <<chain, safeGeneratedCache, graduations, sequentialVars>>

CheckAndGenerateBridgedAt(s) ==
  /\ At(s, "check-and-generate-safe", "generating")
  /\ \E g \in BridgeOutcomes :
       /\ safeGeneratedCache' = CacheAfter(safeGeneratedCache, body, g)
       /\ Responds(s, CheckAndGenerateResponse(requests[s].launchpadData, g))
  /\ UNCHANGED <<chain, graduations, sequentialVars>>

SharedLedgerReachesTarget ==
  /\ TargetReached(chain)
  /\ chain' = AfterTargetReached(chain)
  /\ UNCHANGED <<requests, safeGeneratedCache, graduations, sequentialVars>>

ConcurrentNext ==
  \/ \E s \in Slots : RequestArrives(s)
  \/ \E s \in Slots : GraduateStartAt(s)
  \/ \E s \in Slots : GraduateFetchedAt(s)
  \/ \E s \in Slots : GraduateBlockhashAt(s)
  \/ \E s \in Slots : GraduateConfirmedAt(s)
  \/ \E s \in Slots : CheckAndGenerateStartAt(s)
  \/ \E s \in Slots : CheckAndGenerateFetchedAt(s)
  \/ \E s \in Slots : CheckAndGenerateBridgedAt(s)
  \/ SharedLedgerReachesTarget
ConcurrentSpec == ConcurrentInit /\ [][ConcurrentNext]_vars


(***************************************************************************)
(* CryptoPriceService, the singleton behind the conversion routes.         *)
(* updatePrices runs without interruption up to each of its two awaits     *)
(* (the fetch and response.json()).  `updates` holds the calls of          *)
(* updatePrices that are past the isUpdating check and have not ended,     *)
(* `updateCalls` counts the calls made after the startup one, `now` is     *)
(* Date.now(), and `lastOutcome` is how the latest step of updatePrices    *)
(* went; updates, updateCalls and lastOutcome are read by the properties   *)
(* only.                                                                   *)
(***************************************************************************)
MaxUpdateCalls == 3
MaxTime == 2

Coin(usd) == [present |-> TRUE, usd |-> usd]
NoCoin == [present |-> FALSE]
SimplePrice(btc, eth, sol) ==
  [kind |-> "data", bitcoin |-> btc, ethereum |-> eth, solana |-> sol]
\* response.json(): it throws, or gives null, or the coins with their usd
\* prices, any of which may be missing or 0
JsonOutcomes ==
  {[kind |-> "threw"], [kind |-> "null"]}
    \cup {SimplePrice(Coin(3 * m), Coin(2 * m), Coin(m)) : m \in 0..2}
    \cup {SimplePrice(NoCoin, Coin(2), Coin(1))}
\* fetch(...): it throws, or answers with response.ok false or true
PriceFetchOutcomes == {"threw", "not ok", "ok"}

\* data.bitcoin?.usd || 0
UsdOrZero(c) == IF c.present THEN c.usd ELSE 0
PricesFrom(d) ==
  [BTC |-> UsdOrZero(d.bitcoin), ETH |-> UsdOrZero(d.ethereum), SOL |-> UsdOrZero(d.solana)]

\* if (this.priceData.isUpdating) return
AlreadyUpdating_Never(pd) == FALSE
AlreadyUpdating(pd) == pd.isUpdating

Update(caller, at) == [caller |-> caller, pc |-> at]
Without(seq, i) == SubSeq(seq, 1, i - 1) \o SubSeq(seq, i + 1, Len(seq))

\* the constructor has run: initializeService has called updatePrices, which
\* has set isUpdating and awaits its fetch; the timer is not yet set
ServiceInit ==
  /\ op = "none"
  /\ body = Body(Absent, Absent, Absent, Absent, Absent)
  /\ chain = NoAccount
  /\ pc = "idle"
  /\ launchpadData = NoData
  /\ tx = NoTx
  /\ res = NoRes
  /\ calls = <<>>
  /\ divs = <<>>
  /\ quotients = <<>>
  /\ derived = <<>>
  /\ safeGeneratedCache = <<>>
  /\ graduations = 0
  /\ fields = NoFields
  /\ data = <<>>
  /\ decoded = NotDecoded
  /\ price = NoRes
  /\ NoRequests
  /\ priceData = [prices |-> [BTC |-> 0, ETH |-> 0, SOL |-> 0],
                  lastUpdated |-> 0, isUpdating |-> TRUE]
  /\ updateInterval = "null"
  /\ updates = <<Update("startup", "fetch")>>
  /\ updateCalls = 0
  /\ now = 0
  /\ lastOutcome = "started"

outsideService == <<requestVars, decoderVars, concurrentVars>>

\* updatePrices() up to its first await
updatePrices(caller) ==
  /\ updateCalls' = updateCalls + 1
  /\ IF AlreadyUpdating(priceData)
     THEN /\ lastOutcome' = "skipped"
          /\ UNCHANGED <<priceData, updates>>
     ELSE /\ priceData' = [priceData EXCEPT !.isUpdating = TRUE]
          /\ updates' = Append(updates, Update(caller, "fetch"))
          /\ lastOutcome' = "started"
  /\ UNCHANGED <<updateInterval, now, outsideService>>

\* the callback of setInterval
TimerFires ==
  /\ updateInterval = "set"
  /\ updateCalls < MaxUpdateCalls
  /\ updatePrices("timer")

forceUpdate ==
  /\ updateCalls < MaxUpdateCalls
  /\ updatePrices("forceUpdate")

\* the finally block, and what awaits the call: initializeService sets the
\* timer once its startup call has ended
Ends(i) ==
  /\ updates' = Without(updates, i)
  /\ updateInterval' = IF updates[i].caller = "startup" THEN "set" ELSE updateInterval

FetchAnswers ==
  \E i \in 1..Len(updates) :
    /\ updates[i].pc = "fetch"
    /\ \E o \in PriceFetchOutcomes :
         IF o = "ok"
         THEN /\ updates' = [updates EXCEPT ![i].pc = "json"]
              /\ UNCHANGED <<priceData, updateInterval, lastOutcome>>
         ELSE /\ priceData' = [priceData EXCEPT !.isUpdating = FALSE]
              /\ lastOutcome' = "failed"
              /\ Ends(i)
    /\ UNCHANGED <<updateCalls, now, outsideService>>

JsonAnswers ==
  \E i \in 1..Len(updates) :
    /\ updates[i].pc = "json"
    /\ \E d \in JsonOutcomes :
         IF d.kind = "data"
         THEN /\ priceData' = [prices |-> PricesFrom(d), lastUpdated |-> now,
                               isUpdating |-> FALSE]
              /\ lastOutcome' = "updated"
         ELSE \* json() threw, or data.bitcoin of null threw: the catch block
              /\ priceData' = [priceData EXCEPT !.isUpdating = FALSE]
              /\ lastOutcome' = "failed"
    /\ Ends(i)
    /\ UNCHANGED <<updateCalls, now, outsideService>>

TimePasses ==
  /\ now < MaxTime
  /\ now' = now + 1
  /\ UNCHANGED <<priceData, updateInterval, updates, updateCalls, lastOutcome,
                 outsideService>>

destroy ==
  /\ updateInterval = "set"
  /\ updateInterval' = "null"
  /\ UNCHANGED <<priceData, updates, updateCalls, now, lastOutcome, outsideService>>

ServiceNext ==
  \/ TimerFires \/ forceUpdate
  \/ FetchAnswers \/ JsonAnswers
  \/ TimePasses \/ destroy
PriceServiceSpec == ServiceInit /\ [][ServiceNext]_vars

(***************************************************************************)
(* Properties.  The request under way is read through these.               *)
(***************************************************************************)
Done == pc = "done"
Answered(o) == op = o /\ pc = "done"
Fetched == launchpadData.exists
MarketOpen ==
  /\ Fetched
  /\ launchpadData.mint.option = "Some"
  /\ launchpadData.tokenVault.option = "Some"
ReqSol == toBigInt(body.solAmount)
ReqLamports == BigMul(ReqSol.val, BigLamportsPerSol)
ResX == launchpadData.virtualSolReserves
ResY == launchpadData.virtualTokenReserves
BigScale == BigOfInt(TokenDecimalsScale)
BigOne == BigOfInt(1)
Positive(a) == BigLt(BigZero, a)
\* q is the truncated quotient of n by d, for n >= 0 and d > 0
IsQuotient(q, n, d) ==
  /\ BigLe(BigMul(d, q), n)
  /\ BigLt(n, BigMul(d, BigAdd(q, BigOne)))
Returned200 == res.status = 200
EncodedAmount == res.instruction.data.tokenAmount
Called(c) == \E i \in 1..Len(calls) : calls[i] = c

\* C1: on every answered buy over reserves x, y > 0 with a whole-SOL amount
\* s > 0, the instruction that is returned carries
\* ((s * 10^9 * y) div (x + s * 10^9)) div 10^6, both divisions truncating and
\* exact; the instruction is returned whenever the scaled quotient is at
\* least 1; and x = 30 SOL, y = 1_073_000_000_000_000, s = 1 gives the scaled
\* amount 34_612_903_225_806 and the raw amount 34_612_903.
C1_BuyAmountFormula ==
  (Answered("buy") /\ MarketOpen /\ ReqSol.ok /\ Positive(ReqSol.val)
     /\ Positive(ResX) /\ Positive(ResY)) =>
    LET n == BigMul(ReqLamports, ResY)
        d == BigAdd(ResX, ReqLamports)
    IN /\ Returned200 =>
            /\ IsQuotient(res.debug.tokenAmountWithDecimals, n, d)
            /\ IsQuotient(EncodedAmount, res.debug.tokenAmountWithDecimals, BigScale)
            /\ res.debug.tokenAmountRaw = EncodedAmount
       /\ (BigLe(d, n) /\ body.buyer.t = "address") => Returned200
       /\ (ResX = ExampleSolReserves /\ ResY = ExampleTokenReserves
             /\ ReqSol.val = BigOne /\ Returned200) =>
            /\ res.debug.tokenAmountWithDecimals =
                 BigAdd(BigMul(BigOfInt(34612903), BigScale), BigOfInt(225806))
            /\ EncodedAmount = BigOfInt(34612903)

C1_Witness ==
  /\ Answered("buy") /\ Returned200
  /\ ResX = ExampleSolReserves /\ ResY = ExampleTokenReserves
  /\ body.solAmount = JNum(1, FALSE)
  /\ EncodedAmount = BigOfInt(34612903)

\* C2: no instruction returned by buy or by sell-by-SOL carries tokenAmount 0.
C2_NoZeroAmountEncoded ==
  (Done /\ Returned200 /\ (op = "buy" \/ (op = "sell" /\ SellBySol(body)))) =>
    Positive(EncodedAmount)

\* C3: a graduate request that fetched a state whose status is not Transition
\* has ended with the 400 wrong-state error naming that status, and has called
\* nothing but the state fetch: no recency marker, no signing, no submission.
C3_GraduateWrongState ==
  (op = "graduate" /\ Fetched /\ launchpadData.status # "Transition") =>
    /\ Done
    /\ res.status = 400
    /\ res.error = <<"Launchpad must be in Transition state to graduate. Current state:",
                     launchpadData.status>>
    /\ calls = <<"fetchMaybeLaunchpadState">>
    /\ tx = NoTx

C3_Witness ==
  /\ Answered("graduate") /\ Fetched /\ launchpadData.status = "Safe"
  /\ res.status = 400

\* C4: a graduate request that fetched a state in Transition whose
\* platformAuthority is not the held key's address has ended with the 403
\* authorization error and submitted nothing; and the submission primitive is
\* called only after a fetch that found the state, in Transition, with
\* platformAuthority equal to the held address.
C4_GraduateAuthority ==
  /\ (op = "graduate" /\ Fetched /\ launchpadData.status = "Transition"
        /\ launchpadData.platformAuthority # HeldAuthority) =>
       /\ Done
       /\ res.status = 403
       /\ res.expected = launchpadData.platformAuthority
       /\ res.actual = HeldAuthority
       /\ ~Called("sendAndConfirmTransaction")
       /\ ~Called("sign")
  /\ Called("sendAndConfirmTransaction") =>
       /\ op = "graduate"
       /\ Fetched
       /\ launchpadData.status = "Transition"
       /\ launchpadData.platformAuthority = HeldAuthority

C4_Witness ==
  /\ Answered("graduate") /\ Fetched /\ launchpadData.status = "Transition"
  /\ launchpadData.platformAuthority = "OtherAuthority"
  /\ res.status = 403

\* C5: at fixed reserves x, y > 0 and for 0 < dx < x, the tokens a buy grants
\* for dx never exceed the tokens sell-by-SOL demands for dx, in scaled units
\* (granted * (x - dx) <= dx * y, so selling the granted tokens back returns
\* at most dx) and in the raw units the two instructions carry.
C5_NoRoundTripProfit ==
  (Done /\ MarketOpen /\ ReqSol.ok /\ Positive(ReqSol.val)
     /\ Positive(ResX) /\ Positive(ResY) /\ BigLt(ReqLamports, ResX) /\ Returned200) =>
    /\ op = "buy" =>
         /\ BigLe(BigMul(res.debug.tokenAmountWithDecimals, BigSub(ResX, ReqLamports)),
                  BigMul(ReqLamports, ResY))
         /\ BigLe(EncodedAmount,
                  RemoveDecimals(SellTokenAmountWithDecimals(ResX, ResY, ReqLamports)))
    /\ (op = "sell" /\ SellBySol(body)) =>
         BigLe(RemoveDecimals(BuyTokenAmountWithDecimals(ResX, ResY, ReqLamports)),
               EncodedAmount)

C5_Witness ==
  /\ Answered("sell") /\ SellBySol(body) /\ Returned200 /\ ReqSol.ok
  /\ Positive(RemoveDecimals(BuyTokenAmountWithDecimals(ResX, ResY, ReqLamports)))
  /\ BigLt(RemoveDecimals(BuyTokenAmountWithDecimals(ResX, ResY, ReqLamports)),
           EncodedAmount)

\* C6: a sell request gets past validation (its state fetch is issued) only
\* if exactly one of tokenAmount and solAmount is present in the body.
C6_ExactlyOneAmountField ==
  (op = "sell" /\ Called("fetchMaybeLaunchpadState")) =>
    (body.tokenAmount.t = "undefined") # (body.solAmount.t = "undefined")

\* C7: for a sell request that supplies both tokenAmount and solAmount the
\* ledger state fetch is never issued.
C7_BothAmountsNoFetch ==
  (op = "sell" /\ body.tokenAmount.t # "undefined" /\ body.solAmount.t # "undefined") =>
    ~Called("fetchMaybeLaunchpadState")

\* C8: an answered sell by SOL amount over a fetched state with
\* solAmount * 10^9 >= virtualSolReserves has been rejected with 400 and no
\* instruction, and every divisor x - dx a sell divided by is strictly positive.
C8_SellExceedsReserves ==
  /\ (Answered("sell") /\ Fetched /\ SellBySol(body) /\ ReqSol.ok
        /\ BigLe(ResX, ReqLamports)) =>
       /\ res.status = 400
       /\ "instruction" \notin DOMAIN res
  /\ op = "sell" => \A i \in 1..Len(divs) : Positive(divs[i])

C8_Witness ==
  /\ Answered("sell") /\ MarketOpen /\ SellBySol(body) /\ ReqSol.ok
  /\ Positive(ResX) /\ Positive(ResY)
  /\ ReqLamports = ResX
  /\ res = ErrorRes(400, "SOL amount exceeds available reserves.")

\* C9: on every answered sell by SOL amount over reserves x, y > 0 with
\* 0 < dx = solAmount * 10^9 < x, the instruction that is returned carries
\* ((dx * y) div (x - dx)) div 10^6 with truncating division, and it is
\* returned whenever the scaled quotient is at least 1.
C9_SellAmountFormula ==
  (Answered("sell") /\ MarketOpen /\ SellBySol(body) /\ ReqSol.ok
     /\ Positive(ReqSol.val) /\ Positive(ResX) /\ Positive(ResY)
     /\ BigLt(ReqLamports, ResX)) =>
    LET n == BigMul(ReqLamports, ResY)
        d == BigSub(ResX, ReqLamports)
    IN /\ Returned200 => IsQuotient(EncodedAmount, n, BigMul(d, BigScale))
       /\ (BigLe(d, n) /\ body.seller.t = "address") => Returned200

C9_Witness ==
  /\ Answered("sell") /\ SellBySol(body) /\ Returned200 /\ ReqSol.ok
  /\ Positive(ReqSol.val) /\ BigLt(ReqLamports, ResX)
  /\ ResX # ExampleSolReserves
  /\ Positive(EncodedAmount)

\* C10 as stated: a buy with SOL amount 0 over any fetched reserve state ends
\* with the 'too low to purchase any tokens' error.
C10_ZeroBuyTooLowAlways ==
  (Answered("buy") /\ MarketOpen /\ ReqSol.ok /\ BigIsZero(ReqSol.val)) =>
    res = ErrorRes(400, "SOL amount is too low to purchase any tokens.")

\* C10 as amended: a buy with SOL amount 0 never returns an instruction; over
\* a fetched state with mint and vault present it ends with 400, with the
\* 'too low to purchase any tokens' error when both reserves are non-zero and
\* with the zero-reserves error when one of them is zero.
C10_ZeroBuyRejected ==
  (Answered("buy") /\ ReqSol.ok /\ BigIsZero(ReqSol.val)) =>
    /\ res.status # 200
    /\ "instruction" \notin DOMAIN res
    /\ MarketOpen =>
         res = IF BigIsZero(ResX) \/ BigIsZero(ResY)
               THEN ErrorRes(400, "Invalid launchpad state: Virtual reserves are zero.")
               ELSE ErrorRes(400, "SOL amount is too low to purchase any tokens.")

C10_Witness ==
  /\ Answered("buy") /\ MarketOpen /\ body.solAmount = JNum(0, FALSE)
  /\ Positive(ResX) /\ Positive(ResY)
  /\ res = ErrorRes(400, "SOL amount is too low to purchase any tokens.")

\* the account the ledger holds at the address the request names
AccountAt(a) == IF a = JAddr(StateAddr) THEN chain ELSE NoAccount
HasInstruction == "instruction" \in DOMAIN res

\* C11: an answered buy or sell carries an instruction only if the state it
\* fetched exists with mint and tokenVault both Some; when the ledger holds no
\* account at the address the answer is 404 not-found (or the failure of the
\* fetch itself); and when the fetched state has mint or tokenVault None the
\* answer is the 400 not-initialized error, with no division made, no address
\* derived and no instruction.
C11_InstructionNeedsMintAndVault ==
  ((op = "buy" \/ op = "sell") /\ Done) =>
    /\ HasInstruction =>
         /\ Fetched
         /\ launchpadData.mint.option = "Some"
         /\ launchpadData.tokenVault.option = "Some"
         /\ res.instruction.keys[3 + (IF op = "buy" THEN 1 ELSE 0)].pubkey # "undefined"
    /\ (Called("fetchMaybeLaunchpadState") /\ ~AccountAt(body.launchpadStateAddress).exists) =>
         \/ res = ErrorRes(404, "Launchpad state account not found")
         \/ res = ErrorRes(500, "fetch failed")
    /\ (Fetched /\ (launchpadData.mint.option = "None"
                      \/ launchpadData.tokenVault.option = "None")) =>
         /\ res = ErrorRes(400, "Token mint or vault not initialized in launchpad data")
         /\ ~HasInstruction
         /\ divs = <<>>
         /\ derived = <<>>

C11_Witness ==
  /\ Answered("sell") /\ Fetched
  /\ launchpadData.mint.option = "Some" /\ launchpadData.tokenVault.option = "None"
  /\ res = ErrorRes(400, "Token mint or vault not initialized in launchpad data")
  /\ derived = <<>>

Decoded == decoded # NotDecoded

\* C12: decodeLaunchpadState fails on every buffer shorter than its reads
\* need: a buffer that ends before or inside a length prefix, the initial
\* price, the slope or tokensSoldRaw never decodes to values.
C12_TruncatedBufferFails ==
  (Decoded /\ Len(data) < RequiredLength(fields)) => ~decoded.ok

\* C13: a buffer laid out as discriminator, authority, three length-prefixed
\* strings, two 8-byte fields, initial price, slope, one 8-byte field and
\* sold counter, all of it present, decodes to exactly the initial price,
\* slope and sold counter it was laid out with.
C13_DecoderRoundTrip ==
  (Decoded /\ Len(data) >= RequiredLength(fields)) =>
    /\ decoded.ok
    /\ decoded.initialPriceLamports = WordsValue(fields.initialPrice)
    /\ decoded.slope = WordsValue(fields.slope)
    /\ decoded.tokensSoldRaw = WordsValue(fields.tokensSold)

C13_Witness ==
  /\ Decoded /\ decoded.ok
  /\ Len(data) = RequiredLength(fields)
  /\ fields.nameLen = 1 /\ fields.symbolLen = 0 /\ fields.uriLen = 1
  /\ decoded.initialPriceLamports = BigOfInt(1000000)
  /\ fields.slope = Filler(8, 65535)
  /\ decoded.slope = BigSub(BigPow(BigOfInt(65536), 8), BigOfInt(1))
  /\ decoded.tokensSoldRaw = BigOfInt(70000)

CallsAfter(first, later) ==
  \E i, j \in 1..Len(calls) : i < j /\ calls[i] = first /\ calls[j] = later
LastCall == IF calls = <<>> THEN "" ELSE calls[Len(calls)]
Submitted == Called("sendAndConfirmTransaction")
WrongState(kind, st) ==
  ErrorRes(400, <<"Launchpad must be in Transition state to " \o kind \o ". Current state:", st>>)

\* C14: a graduate request that answers with success has fetched the
\* launchpad state again after the submission was confirmed (and reports the
\* status seen in that fetch).
C14_GraduateRefetches ==
  (Answered("graduate") /\ Returned200) =>
    CallsAfter("sendAndConfirmTransaction", "fetchMaybeLaunchpadState")

\* C15: the status of a launchpad only moves forward, and Safe is final: no
\* step of a buy, sell, graduate or document request changes the status,
\* except the landing of a graduate submission, which takes Transition to
\* Safe; the account never appears or disappears; once the status is Safe it
\* stays Safe, so at most one graduate transaction ever lands; and a graduate
\* request made once the status is Safe builds no transaction, calls
\* no submission primitive, and is answered, when its fetch returns, with the
\* 400 wrong-state error naming Safe.
C15_LifecycleMonotone ==
  /\ [][ /\ chain'.exists = chain.exists
         /\ (chain.exists /\ chain'.status # chain.status) =>
              \/ /\ chain.status = "Transition" /\ chain'.status = "Safe"
                 /\ op = "graduate" /\ pc = "confirming"
                 /\ LastCall = "sendAndConfirmTransaction"
              \/ /\ chain.status = "Trading" /\ chain'.status = "Transition"
                 /\ UNCHANGED <<op, body, pc, res, calls>>
         /\ (chain.exists /\ chain.status = "Safe") => chain'.status = "Safe"
         /\ graduations' # graduations =>
              (chain.status = "Transition" /\ chain'.status = "Safe") ]_vars
  /\ [](graduations <= 1)
  /\ [](( op = "graduate" /\ chain.exists /\ chain.status = "Safe" /\ ~Submitted) =>
          /\ tx = NoTx
          /\ ~Called("getLatestBlockhash") /\ ~Called("sign")
          /\ Fetched => (Done /\ res = WrongState("graduate", "Safe")))

C15_Witness ==
  /\ graduations = 1
  /\ Answered("graduate") /\ chain.exists /\ chain.status = "Safe"
  /\ Fetched /\ launchpadData.status = "Safe"
  /\ res = WrongState("graduate", "Safe")
  /\ calls = <<"fetchMaybeLaunchpadState">>

\* C16: a document request, by generate-safe or by check-and-generate-safe,
\* that fetched a state in Trading or Safe has ended with the 400 state error
\* naming that status, and the bridge was not called.
C16_DocumentOnlyInTransition ==
  ((op = "generate-safe" \/ op = "check-and-generate-safe")
     /\ Fetched /\ launchpadData.status # "Transition") =>
    /\ Done
    /\ res = WrongState("generate SAFE", launchpadData.status)
    /\ ~Called("bridge /generate-safe")

\* C17: a malformed request field is answered as a validation error (400),
\* not with the 500 that answers a failed state fetch or submission: a buy
\* whose fetch returned an initialised state and whose solAmount is no
\* integer, and a graduate whose launchpadStateAddress is no address.
C17_MalformedFieldIsValidationError ==
  /\ (Answered("buy") /\ MarketOpen /\ ~ReqSol.ok) => res.status = 400
  /\ (Answered("graduate") /\ Truthy(body.launchpadStateAddress)
        /\ body.launchpadStateAddress.t # "address") => res.status = 400

\* C18: the instruction a buy returns lists exactly these ten accounts, in
\* this order: state (w), launchpadAuthority (r), solVault (w), tokenVault
\* (w), mint (w), buyer (signer, w), buyerTokenAccount (w), systemProgram
\* (r), tokenProgram (r), associatedTokenProgram (r); the buyer is the only
\* signer; tokenVault and mint are those of the fetched state.
C18_BuyAccountOrder ==
  (Answered("buy") /\ HasInstruction) =>
    LET state == body.launchpadStateAddress.addr
        buyer == body.buyer.addr
        mint == launchpadData.mint.value
        keys == res.instruction.keys
    IN /\ Fetched
       /\ keys =
            << [pubkey |-> state, isSigner |-> FALSE, isWritable |-> TRUE],
               [pubkey |-> PDA("launchpad_authority", state), isSigner |-> FALSE,
                isWritable |-> FALSE],
               [pubkey |-> PDA("sol_vault", state), isSigner |-> FALSE, isWritable |-> TRUE],
               [pubkey |-> launchpadData.tokenVault.value, isSigner |-> FALSE,
                isWritable |-> TRUE],
               [pubkey |-> mint, isSigner |-> FALSE, isWritable |-> TRUE],
               [pubkey |-> buyer, isSigner |-> TRUE, isWritable |-> TRUE],
               [pubkey |-> ATA(mint, buyer), isSigner |-> FALSE, isWritable |-> TRUE],
               [pubkey |-> SYSTEM_PROGRAM_ID, isSigner |-> FALSE, isWritable |-> FALSE],
               [pubkey |-> TOKEN_PROGRAM_ID, isSigner |-> FALSE, isWritable |-> FALSE],
               [pubkey |-> ASSOCIATED_TOKEN_PROGRAM, isSigner |-> FALSE,
                isWritable |-> FALSE] >>
       /\ Len(keys) = 10
       /\ {i \in 1..Len(keys) : keys[i].isSigner} = {6}
       /\ launchpadData.tokenVault.option = "Some" /\ launchpadData.mint.option = "Some"

C18_Witness ==
  /\ Answered("buy") /\ Returned200
  /\ Len(res.instruction.keys) = 10
  /\ res.instruction.keys[4].pubkey = "Vault1"
  /\ res.instruction.keys[5].pubkey = "Mint1"
  /\ res.instruction.keys[6] = Key("User1", TRUE, TRUE)

\* C19: the instruction a sell returns lists exactly these nine accounts, in
\* this order: state (w), solVault (w), tokenVault (w), mint (w), seller
\* (signer, w), sellerTokenAccount (w), systemProgram (r), tokenProgram (r),
\* associatedTokenProgram (r); the seller is the only signer; and the list is
\* the same whether the request gave tokenAmount or solAmount.
C19_SellAccountOrder ==
  (Answered("sell") /\ HasInstruction) =>
    LET state == body.launchpadStateAddress.addr
        seller == body.seller.addr
        mint == launchpadData.mint.value
        keys == res.instruction.keys
    IN /\ Fetched
       /\ keys =
            << [pubkey |-> state, isSigner |-> FALSE, isWritable |-> TRUE],
               [pubkey |-> PDA("sol_vault", state), isSigner |-> FALSE, isWritable |-> TRUE],
               [pubkey |-> launchpadData.tokenVault.value, isSigner |-> FALSE,
                isWritable |-> TRUE],
               [pubkey |-> mint, isSigner |-> FALSE, isWritable |-> TRUE],
               [pubkey |-> seller, isSigner |-> TRUE, isWritable |-> TRUE],
               [pubkey |-> ATA(mint, seller), isSigner |-> FALSE, isWritable |-> TRUE],
               [pubkey |-> SYSTEM_PROGRAM_ID, isSigner |-> FALSE, isWritable |-> FALSE],
               [pubkey |-> TOKEN_PROGRAM_ID, isSigner |-> FALSE, isWritable |-> FALSE],
               [pubkey |-> ASSOCIATED_TOKEN_PROGRAM, isSigner |-> FALSE,
                isWritable |-> FALSE] >>
       /\ Len(keys) = 9
       /\ {i \in 1..Len(keys) : keys[i].isSigner} = {5}

C19_Witness ==
  /\ Answered("sell") /\ Returned200 /\ ~SellBySol(body)
  /\ body.tokenAmount = JNum(1, FALSE)
  /\ Len(res.instruction.keys) = 9
  /\ res.instruction.keys[5] = Key("User1", TRUE, TRUE)

\* C20: a graduate request has no response while its submission is in
\* flight; it answers with success (the signature, previousStatus Transition,
\* newStatus Safe) only when submit-and-confirm has returned a signature; and
\* when submit-and-confirm, or the recency-marker fetch before it, has
\* thrown, it answers with a 500 failure, never with success.
C20_SuccessOnlyAfterConfirmation ==
  op = "graduate" =>
    /\ (pc = "confirming" \/ pc = "blockhash") => res = NoRes
    /\ (Done /\ (res.status = 200 \/ ("success" \in DOMAIN res /\ res.success))) =>
         /\ LastCall = "sendAndConfirmTransaction returned"
         /\ res = [status |-> 200, success |-> TRUE, signature |-> "signature",
                   launchpadState |-> body.launchpadStateAddress.addr,
                   previousStatus |-> "Transition", newStatus |-> "Safe"]
    /\ (Done /\ LastCall \in {"sendAndConfirmTransaction threw", "getLatestBlockhash"}) =>
         /\ res.status = 500
         /\ res.success = FALSE
         /\ "signature" \notin DOMAIN res

C20_Witness ==
  /\ Answered("graduate") /\ Returned200
  /\ LastCall = "sendAndConfirmTransaction returned"
  /\ res.signature = "signature"
  /\ chain.status = "Safe"
\* C21: the price route answers with currentPriceLamports =
\* (initialPriceLamports + slope * tokensSoldRaw) * 10^6 of the three decoded
\* fields, exactly; the price is non-decreasing in tokensSoldRaw; and it is
\* initialPriceLamports * 10^6 when tokensSoldRaw is 0.  P_0 = 1_000_000,
\* m = 258, s = 1 gives 1_000_258_000_000.
PriceOf(p0, m, sold) ==
  currentPriceFullTokenLamports(
    [initialPriceLamports |-> p0, slope |-> m, tokensSoldRaw |-> sold])
BigMillion == BigOfInt(1000000)
C21_SpotPrice ==
  price.status = 200 =>
    LET a == price.debug.atomic
        p == price.currentPriceLamports
        d == decodeLaunchpadState(data)
    IN /\ a.initialPriceLamports = d.initialPriceLamports
       /\ a.slope = d.slope
       /\ a.tokensSoldRaw = d.tokensSoldRaw
       /\ p = BigMul(BigAdd(a.initialPriceLamports, BigMul(a.slope, a.tokensSoldRaw)),
                     BigMillion)
       /\ BigIsZero(a.tokensSoldRaw) => p = BigMul(a.initialPriceLamports, BigMillion)
       /\ \A ws \in TokensSoldValues :
            LET sold == WordsValue(ws)
            IN /\ BigLe(sold, a.tokensSoldRaw) =>
                    BigLe(PriceOf(a.initialPriceLamports, a.slope, sold), p)
               /\ BigLe(a.tokensSoldRaw, sold) =>
                    BigLe(p, PriceOf(a.initialPriceLamports, a.slope, sold))
       /\ (a.initialPriceLamports = BigMillion /\ a.slope = BigOfInt(258)
             /\ a.tokensSoldRaw = BigOne) =>
            p = BigMul(BigOfInt(1000258), BigMillion)

C21_Witness ==
  /\ price.status = 200
  /\ fields.tokensSold = <<1>> /\ fields.slope = <<258>>
  /\ price.debug.atomic.initialPriceLamports = BigMillion
  /\ price.debug.atomic.tokensSoldRaw = BigOne
  /\ price.currentPriceLamports = BigMul(BigOfInt(1000258), BigMillion)

ResK == launchpadData.k
Product == BigMul(ResX, ResY)
BuyAccepted ==
  /\ Answered("buy") /\ Returned200
  /\ Positive(ReqSol.val) /\ Positive(ResX) /\ Positive(ResY)

\* C22 as claimed: on every accepted buy with x, y, dx > 0 and the fetched
\* k = x * y, the scaled amount equals y - (k div (x + dx)).
C22_BuyFormulasEqual ==
  (BuyAccepted /\ ResK = Product) =>
    res.debug.tokenAmountWithDecimals =
      BigSub(ResY, BigDiv(ResK, BigAdd(ResX, ReqLamports)))

\* C22: on every accepted buy with x, y, dx > 0 the scaled amount
\* (dx * y) div (x + dx) is y minus the quotient of x * y by x + dx rounded
\* up: it equals y - ((x * y) div (x + dx)) when x + dx divides x * y and
\* is one less otherwise; and it is the same whatever the fetched k field
\* holds.
C22_BuyFormulasWithinOne ==
  BuyAccepted =>
    LET d == BigAdd(ResX, ReqLamports)
        w == res.debug.tokenAmountWithDecimals
        q == BigSub(ResY, w)
    IN /\ IsQuotient(w, BigMul(ReqLamports, ResY), d)
       /\ BigLe(Product, BigMul(d, q))
       /\ BigLt(BigMul(d, BigSub(q, BigOne)), Product)

\* a buy where x + dx does not divide x * y, answered from a state whose
\* fetched k is not the product of the reserves
C22_Witness ==
  /\ BuyAccepted
  /\ ResK # Product
  /\ res.debug.tokenAmountWithDecimals #
       BigSub(ResY, BigDiv(Product, BigAdd(ResX, ReqLamports)))

SwapComputed(o) ==
  /\ Answered(o) /\ Len(quotients) = 1
  /\ ReqSol.ok /\ Positive(ReqSol.val) /\ Positive(ResX) /\ Positive(ResY)
PostBuyProduct == BigMul(BigAdd(ResX, ReqLamports), BigSub(ResY, quotients[1]))
PostSellProduct == BigMul(BigSub(ResX, ReqLamports), BigAdd(ResY, quotients[1]))

\* C23 as claimed, for a sell by SOL amount: with k = x * y, the product
\* (x - dx) * (y + dy) after the swap is at least k and less than
\* k + (x - dx).
C23_SellNeverBelowK ==
  SwapComputed("sell") =>
    /\ BigLe(Product, PostSellProduct)
    /\ BigLt(PostSellProduct, BigAdd(Product, BigSub(ResX, ReqLamports)))

\* C23: with k = x * y and dx > 0, after a computed buy
\* k <= (x + dx) * (y - dy) < k + (x + dx); after a computed sell by SOL
\* amount k - (x - dx) < (x - dx) * (y + dy) <= k: the product is within
\* one divisor of k, never above it.
C23_ConstantProduct ==
  /\ SwapComputed("buy") =>
       /\ BigLe(Product, PostBuyProduct)
       /\ BigLt(PostBuyProduct, BigAdd(Product, BigAdd(ResX, ReqLamports)))
  /\ SwapComputed("sell") =>
       /\ BigLe(PostSellProduct, Product)
       /\ BigLt(BigSub(Product, BigSub(ResX, ReqLamports)), PostSellProduct)

\* a sell that leaves the product strictly below k
C23_Witness ==
  /\ SwapComputed("sell") /\ Returned200
  /\ BigLt(PostSellProduct, Product)

\* C24: a buy or sell that was answered from a fetched state is answered
\* the same from the state that differs from it in status only, whichever
\* of Trading, Transition and Safe the status is.
WithStatus(st) == [thrown |-> FALSE, account |-> [launchpadData EXCEPT !.status = st]]
C24_StatusIndependent ==
  /\ (Answered("buy") /\ Fetched) =>
       \A st \in Statuses : \E enc \in OutOfRangeOutcomes :
         res = BuyAfterFetch(body, WithStatus(st), enc).res
  /\ (Answered("sell") /\ Fetched) =>
       \A st \in Statuses : \E enc \in OutOfRangeOutcomes :
         res = SellAfterFetch(body, WithStatus(st), enc).res

C24_Witness ==
  /\ Answered("buy") /\ Returned200
  /\ launchpadData.status = "Safe"

\* C27 as claimed: a buy over non-zero reserves with solAmount <= 0 is
\* answered 400 without an instruction, and no division is made by a
\* divisor that is zero or negative.
C27_NonPositiveBuyRejected ==
  (Answered("buy") /\ MarketOpen /\ ReqSol.ok /\ ~Positive(ReqSol.val)
     /\ ~BigIsZero(ResX) /\ ~BigIsZero(ResY)) =>
    /\ res.status = 400
    /\ \A i \in 1..Len(divs) : Positive(divs[i])

\* C29: on every accepted buy with x, y, dx > 0 the scaled amount is
\* positive and less than y, and it is non-decreasing in dx.
C29_BuyNeverDrains ==
  BuyAccepted =>
    LET w == res.debug.tokenAmountWithDecimals
    IN /\ Positive(w)
       /\ BigLt(w, ResY)
       /\ quotients = <<w>>
       /\ \A s \in 1..MaxSolAmount :
            LET dx == BigMul(BigOfInt(s), BigLamportsPerSol)
                v == BuyTokenAmountWithDecimals(ResX, ResY, dx)
            IN /\ BigLe(dx, ReqLamports) => BigLe(v, w)
               /\ BigLe(ReqLamports, dx) => BigLe(w, v)

\* a buy of more lamports than the SOL reserve holds
C29_Witness ==
  /\ BuyAccepted
  /\ BigLt(ResX, ReqLamports)
  /\ BigLt(res.debug.tokenAmountWithDecimals, ResY)

\* C25: within a graduate request the calls are made in the order state
\* fetch, getLatestBlockhash, sign, sendAndConfirmTransaction, each after the
\* one before it has answered; getLatestBlockhash is called only once the
\* fetched state has passed the existence, status and authority checks and
\* the instruction is assembled; and the transaction handed to
\* sendAndConfirmTransaction carries the blockhash and the expiry height of
\* one answer of that call.
GraduateCalls ==
  <<"fetchMaybeLaunchpadState", "getLatestBlockhash", "sign", "sendAndConfirmTransaction">>
IsPrefix(a, b) == Len(a) <= Len(b) /\ a = SubSeq(b, 1, Len(a))
Marked(t) ==
  [blockhash |-> t.recentBlockhash, lastValidBlockHeight |-> t.lastValidBlockHeight]
    \in LatestBlockhashOutcomes
C25_GraduateStepOrder ==
  op = "graduate" =>
    /\ \/ IsPrefix(calls, GraduateCalls)
       \/ \E outcome \in {"sendAndConfirmTransaction returned",
                           "sendAndConfirmTransaction threw"} :
            calls = Append(GraduateCalls, outcome)
    /\ (pc = "fetching") <=> (calls = SubSeq(GraduateCalls, 1, 1) /\ ~Done)
    /\ Called("getLatestBlockhash") =>
         /\ Fetched
         /\ launchpadData.status = "Transition"
         /\ launchpadData.platformAuthority = HeldAuthority
         /\ tx.built
         /\ tx.keys = graduateKeys(body.launchpadStateAddress.addr)
    /\ (pc = "blockhash") <=> (calls = SubSeq(GraduateCalls, 1, 2) /\ ~Done)
    /\ (pc = "blockhash") => (tx.recentBlockhash = "" /\ tx.signer = "")
    /\ Called("sign") => (Marked(tx) /\ tx.signer = HeldAuthority)
    /\ (pc = "confirming") <=> (calls = GraduateCalls /\ ~Done)
    /\ ~Called("getLatestBlockhash") => tx = NoTx

C25_Witness ==
  /\ op = "graduate" /\ pc = "confirming"
  /\ calls = GraduateCalls
  /\ tx.recentBlockhash = "blockhash2" /\ tx.lastValidBlockHeight = "height2"

\* C26 as claimed: once the cache holds the document of the launchpad, no
\* request calls the bridge for it.
BridgeCalledBy(s) ==
  requests[s].pc # "generating" /\ requests'[s].pc = "generating"
C26_NoBridgeCallOnceCached ==
  [][Cached(safeGeneratedCache, body) => \A s \in Slots : ~BridgeCalledBy(s)]_vars

\* C28 as claimed: no two graduate requests are at sendAndConfirmTransaction
\* at once.
Submitting(s) == At(s, "graduate", "confirming")
HasSubmitted(s) ==
  \E i \in 1..Len(requests[s].calls) : requests[s].calls[i] = "sendAndConfirmTransaction"
C28_AtMostOneSubmits ==
  \A s, t \in Slots : (Submitting(s) /\ Submitting(t)) => s = t

\* C28: graduate requests that interleave at their awaits can be at
\* sendAndConfirmTransaction together; each is there only after its own
\* fetch showed the launchpad in Transition under the held authority, each
\* submits one transaction, and at most one of the transactions submitted
\* for the launchpad is confirmed.
C28_AtMostOneConfirmed ==
  /\ graduations <= 1
  /\ \A s \in Slots :
       /\ HasSubmitted(s) =>
            /\ requests[s].launchpadData.exists
            /\ requests[s].launchpadData.status = "Transition"
            /\ requests[s].launchpadData.platformAuthority = HeldAuthority
            /\ requests[s].tx.signer = HeldAuthority
       /\ Cardinality({i \in 1..Len(requests[s].calls) :
                         requests[s].calls[i] = "sendAndConfirmTransaction"}) <= 1
       /\ requests[s].res.status = 200 /\ requests[s].op = "graduate" =>
            (graduations = 1 /\ chain.status = "Safe")
  /\ Cardinality({s \in Slots : requests[s].op = "graduate"
                                  /\ requests[s].res.status = 200}) <= 1

\* two requests at sendAndConfirmTransaction at once, one then confirmed and
\* the other refused
C28_Witness ==
  /\ graduations = 1
  /\ \E s, t \in Slots :
       /\ s # t
       /\ HasSubmitted(s) /\ requests[s].res.status = 200
       /\ HasSubmitted(t) /\ requests[t].res = GraduateCaught("failed to send transaction")

\* C30: at most one call of updatePrices is between its isUpdating check
\* and its end, and isUpdating is true exactly then; a call made while
\* isUpdating is true changes neither priceData nor the calls under way;
\* when a call ends isUpdating is false; and when it ends in failure prices
\* and lastUpdated are what they were.
UpdateEnds == Len(updates') < Len(updates)
UpdateStep ==
  /\ (priceData.isUpdating /\ updateCalls' # updateCalls) =>
       (priceData' = priceData /\ updates' = updates /\ lastOutcome' = "skipped")
  /\ (~priceData.isUpdating /\ updateCalls' # updateCalls) =>
       (priceData'.isUpdating /\ Len(updates') = 1)
  /\ UpdateEnds => ~priceData'.isUpdating
  /\ (UpdateEnds /\ lastOutcome' = "failed") =>
       /\ priceData'.prices = priceData.prices
       /\ priceData'.lastUpdated = priceData.lastUpdated
  /\ (UpdateEnds /\ lastOutcome' = "updated") => priceData'.lastUpdated = now
  /\ (priceData'.prices # priceData.prices) => (UpdateEnds /\ lastOutcome' = "updated")
C30_SingleFlight ==
  /\ [](Len(updates) <= 1 /\ (priceData.isUpdating <=> Len(updates) = 1))
  /\ [][UpdateStep]_vars

\* a timer callback found the update that forceUpdate had started still
\* running, after the prices had been set once
C30_Witness ==
  /\ lastOutcome = "skipped"
  /\ priceData.isUpdating
  /\ updates = <<Update("forceUpdate", "json")>>
  /\ priceData.prices.BTC = 3
  /\ priceData.lastUpdated = 1

====
